---- MODULE Spec2Model ----
(***************************************************************************)
(* The CCL tournament pipeline of UCSC-Chess-Club: the four API handlers   *)
(* run-ccl-search (discover), upload-ccl-pdf (archive), extract-ccl-info   *)
(* (extract) and get-ccl-status (status) over the Firestore collection     *)
(* "ccl-tournament-info" and the Firebase storage bucket.                  *)
(*                                                                         *)
(* Every handler is an async function: between two awaits on the store or  *)
(* the bucket another request may run, so each handler is a sequence of    *)
(* atomic steps, one per store or bucket operation, and NProc requests are *)
(* in flight at a time.  Strings the code inspects (includes, toLowerCase, *)
(* match) are inspected through their characters, Chars(s).                *)
(*                                                                         *)
(* call holds one application of a function of the handlers (the citation  *)
(* filter, the classification of an anchor, the record of a page, the      *)
(* resolution of a viewer link) to an input, for the specification         *)
(* PureSpec that applies them outside a request.                           *)
(*                                                                         *)
(* page is the state of the step-manager page (CCLSearchPage): the         *)
(* selected season and year, the status and the data of each of its three  *)
(* steps, and which of its fetches waits for the response of which         *)
(* request slot.  The specification PageSpec has the page as the only      *)
(* caller of the handlers.                                                 *)
(*                                                                         *)
(* rag is the state of the retrieval-augmented server: its two module      *)
(* level variables _vectorStore and _qaChain and the calls of              *)
(* initializePdfProcessing in flight, for the specification RagSpec.       *)
(***************************************************************************)
EXTENDS Integers, Sequences, FiniteSets, TLC

VARIABLES store, blobs, req, archived, call, page, rag

vars == <<store, blobs, req, archived, call, page, rag>>

----------------------------------------------------------------------------
(* Bounds of the model.                                                    *)

\* documents the collection can hold; addDoc fails once it is full
MaxDocs == 2
\* largest value Date.now() takes
MaxClock == 1

\* builds of the vector store the retrieval-augmented server can start
MaxBuilds == 3
\* calls of clearPdfCache
MaxClears == 2
\* the callers of initializePdfProcessing that can be in flight at a time
Callers == {1, 2}

\* the request slots: two requests can be in flight at a time
Procs == {1, 2}
DocIds == 1..MaxDocs

----------------------------------------------------------------------------
(* Strings.  A string value is a TLA+ string; Chars gives its characters.  *)

Chars(s) ==
  CASE s = "" ->
         <<>>
    [] s = "spring" ->
         <<"s", "p", "r", "i", "n", "g">>
    [] s = "fall" ->
         <<"f", "a", "l", "l">>
    [] s = "2026" ->
         <<"2", "0", "2", "6">>
    [] s = "https://www.chess.com/news/2026-spring-ccl" ->
         <<"h", "t", "t", "p", "s", ":", "/", "/", "w", "w", "w", ".", "c", "h", "e", "s", "s", ".", "c", "o", "m", "/", "n", "e", "w", "s", "/", "2", "0", "2", "6", "-", "s", "p", "r", "i", "n", "g", "-", "c", "c", "l">>
    [] s = "https://www.chess.com/clubs/Spring-2026-signup" ->
         <<"h", "t", "t", "p", "s", ":", "/", "/", "w", "w", "w", ".", "c", "h", "e", "s", "s", ".", "c", "o", "m", "/", "c", "l", "u", "b", "s", "/", "S", "p", "r", "i", "n", "g", "-", "2", "0", "2", "6", "-", "s", "i", "g", "n", "u", "p">>
    [] s = "https://www.chess.com/news/2026-fall-ccl" ->
         <<"h", "t", "t", "p", "s", ":", "/", "/", "w", "w", "w", ".", "c", "h", "e", "s", "s", ".", "c", "o", "m", "/", "n", "e", "w", "s", "/", "2", "0", "2", "6", "-", "f", "a", "l", "l", "-", "c", "c", "l">>
    [] s = "https://www.chess.com/news/2026-fall-recap" ->
         <<"h", "t", "t", "p", "s", ":", "/", "/", "w", "w", "w", ".", "c", "h", "e", "s", "s", ".", "c", "o", "m", "/", "n", "e", "w", "s", "/", "2", "0", "2", "6", "-", "f", "a", "l", "l", "-", "r", "e", "c", "a", "p">>
    [] s = "https://www.chess.com/india-2026-spring" ->
         <<"h", "t", "t", "p", "s", ":", "/", "/", "w", "w", "w", ".", "c", "h", "e", "s", "s", ".", "c", "o", "m", "/", "i", "n", "d", "i", "a", "-", "2", "0", "2", "6", "-", "s", "p", "r", "i", "n", "g">>
    [] s = "https://www.chess.com/news/2025-spring-ccl" ->
         <<"h", "t", "t", "p", "s", ":", "/", "/", "w", "w", "w", ".", "c", "h", "e", "s", "s", ".", "c", "o", "m", "/", "n", "e", "w", "s", "/", "2", "0", "2", "5", "-", "s", "p", "r", "i", "n", "g", "-", "c", "c", "l">>
    [] s = "https://drive.google.com/file/d/ABC123/view" ->
         <<"h", "t", "t", "p", "s", ":", "/", "/", "d", "r", "i", "v", "e", ".", "g", "o", "o", "g", "l", "e", ".", "c", "o", "m", "/", "f", "i", "l", "e", "/", "d", "/", "A", "B", "C", "1", "2", "3", "/", "v", "i", "e", "w">>
    [] s = "https://example.com/rules.pdf" ->
         <<"h", "t", "t", "p", "s", ":", "/", "/", "e", "x", "a", "m", "p", "l", "e", ".", "c", "o", "m", "/", "r", "u", "l", "e", "s", ".", "p", "d", "f">>
    [] s = "https://forms.gle/reg" ->
         <<"h", "t", "t", "p", "s", ":", "/", "/", "f", "o", "r", "m", "s", ".", "g", "l", "e", "/", "r", "e", "g">>
    [] s = "https://chess.com/register" ->
         <<"h", "t", "t", "p", "s", ":", "/", "/", "c", "h", "e", "s", "s", ".", "c", "o", "m", "/", "r", "e", "g", "i", "s", "t", "e", "r">>
    [] s = "https://www.chess.com/home" ->
         <<"h", "t", "t", "p", "s", ":", "/", "/", "w", "w", "w", ".", "c", "h", "e", "s", "s", ".", "c", "o", "m", "/", "h", "o", "m", "e">>
    [] s = "Download PDF" ->
         <<"D", "o", "w", "n", "l", "o", "a", "d", " ", "P", "D", "F">>
    [] s = "Register" ->
         <<"R", "e", "g", "i", "s", "t", "e", "r">>
    [] s = "Sign Up" ->
         <<"S", "i", "g", "n", " ", "U", "p">>
    [] s = "Rules" ->
         <<"R", "u", "l", "e", "s">>
    [] s = "Home" ->
         <<"H", "o", "m", "e">>
    [] s = "india" ->
         <<"i", "n", "d", "i", "a">>
    [] s = "pdf" ->
         <<"p", "d", "f">>
    [] s = ".pdf" ->
         <<".", "p", "d", "f">>
    [] s = "drive.google.com" ->
         <<"d", "r", "i", "v", "e", ".", "g", "o", "o", "g", "l", "e", ".", "c", "o", "m">>
    [] s = "docs.google.com" ->
         <<"d", "o", "c", "s", ".", "g", "o", "o", "g", "l", "e", ".", "c", "o", "m">>
    [] s = "/forms/" ->
         <<"/", "f", "o", "r", "m", "s", "/">>
    [] s = "instruction" ->
         <<"i", "n", "s", "t", "r", "u", "c", "t", "i", "o", "n">>
    [] s = "registration" ->
         <<"r", "e", "g", "i", "s", "t", "r", "a", "t", "i", "o", "n">>
    [] s = "register" ->
         <<"r", "e", "g", "i", "s", "t", "e", "r">>
    [] s = "sign up" ->
         <<"s", "i", "g", "n", " ", "u", "p">>
    [] s = "forms.gle" ->
         <<"f", "o", "r", "m", "s", ".", "g", "l", "e">>
    [] s = "docs.google.com/forms" ->
         <<"d", "o", "c", "s", ".", "g", "o", "o", "g", "l", "e", ".", "c", "o", "m", "/", "f", "o", "r", "m", "s">>
    [] s = "fairplay-agreement" ->
         <<"f", "a", "i", "r", "p", "l", "a", "y", "-", "a", "g", "r", "e", "e", "m", "e", "n", "t">>
    [] s = "fair play" ->
         <<"f", "a", "i", "r", " ", "p", "l", "a", "y">>
    [] s = "user-agreement" ->
         <<"u", "s", "e", "r", "-", "a", "g", "r", "e", "e", "m", "e", "n", "t">>
    [] s = "/cheating" ->
         <<"/", "c", "h", "e", "a", "t", "i", "n", "g">>
    [] s = "legal" ->
         <<"l", "e", "g", "a", "l">>
    [] s = "pcl.gg" ->
         <<"p", "c", "l", ".", "g", "g">>
    [] s = "chess.com/register" ->
         <<"c", "h", "e", "s", "s", ".", "c", "o", "m", "/", "r", "e", "g", "i", "s", "t", "e", "r">>
    [] s = "chess.com/login" ->
         <<"c", "h", "e", "s", "s", ".", "c", "o", "m", "/", "l", "o", "g", "i", "n">>
    [] s = "Spring" ->
         <<"S", "p", "r", "i", "n", "g">>
    [] s = "2025" ->
         <<"2", "0", "2", "5">>
    [] s = "https://example.com/2026-spring-rules" ->
         <<"h", "t", "t", "p", "s", ":", "/", "/", "e", "x", "a", "m", "p", "l", "e", ".", "c", "o", "m", "/", "2", "0", "2", "6", "-", "s", "p", "r", "i", "n", "g", "-", "r", "u", "l", "e", "s">>
    [] s = "https://example.com/india-2026-spring" ->
         <<"h", "t", "t", "p", "s", ":", "/", "/", "e", "x", "a", "m", "p", "l", "e", ".", "c", "o", "m", "/", "i", "n", "d", "i", "a", "-", "2", "0", "2", "6", "-", "s", "p", "r", "i", "n", "g">>
    [] s = "https://example.com/2025-spring" ->
         <<"h", "t", "t", "p", "s", ":", "/", "/", "e", "x", "a", "m", "p", "l", "e", ".", "c", "o", "m", "/", "2", "0", "2", "5", "-", "s", "p", "r", "i", "n", "g">>
    [] s = "https://example.com/2026-SPRING-Rules" ->
         <<"h", "t", "t", "p", "s", ":", "/", "/", "e", "x", "a", "m", "p", "l", "e", ".", "c", "o", "m", "/", "2", "0", "2", "6", "-", "S", "P", "R", "I", "N", "G", "-", "R", "u", "l", "e", "s">>
    [] s = "https://example.com/INDIA/2026-spring" ->
         <<"h", "t", "t", "p", "s", ":", "/", "/", "e", "x", "a", "m", "p", "l", "e", ".", "c", "o", "m", "/", "I", "N", "D", "I", "A", "/", "2", "0", "2", "6", "-", "s", "p", "r", "i", "n", "g">>
    [] s = "https://www.chess.com/login?next=rules.pdf" ->
         <<"h", "t", "t", "p", "s", ":", "/", "/", "w", "w", "w", ".", "c", "h", "e", "s", "s", ".", "c", "o", "m", "/", "l", "o", "g", "i", "n", "?", "n", "e", "x", "t", "=", "r", "u", "l", "e", "s", ".", "p", "d", "f">>
    [] s = "https://www.Chess.com/Register" ->
         <<"h", "t", "t", "p", "s", ":", "/", "/", "w", "w", "w", ".", "C", "h", "e", "s", "s", ".", "c", "o", "m", "/", "R", "e", "g", "i", "s", "t", "e", "r">>
    [] s = "https://docs.google.com/forms/d/e/1/viewform" ->
         <<"h", "t", "t", "p", "s", ":", "/", "/", "d", "o", "c", "s", ".", "g", "o", "o", "g", "l", "e", ".", "c", "o", "m", "/", "f", "o", "r", "m", "s", "/", "d", "/", "e", "/", "1", "/", "v", "i", "e", "w", "f", "o", "r", "m">>
    [] s = "https://docs.google.com/document/d/1/edit" ->
         <<"h", "t", "t", "p", "s", ":", "/", "/", "d", "o", "c", "s", ".", "g", "o", "o", "g", "l", "e", ".", "c", "o", "m", "/", "d", "o", "c", "u", "m", "e", "n", "t", "/", "d", "/", "1", "/", "e", "d", "i", "t">>
    [] s = "https://pcl.gg/league" ->
         <<"h", "t", "t", "p", "s", ":", "/", "/", "p", "c", "l", ".", "g", "g", "/", "l", "e", "a", "g", "u", "e">>
    [] s = "Instructions" ->
         <<"I", "n", "s", "t", "r", "u", "c", "t", "i", "o", "n", "s">>
    [] s = "Fair Play" ->
         <<"F", "a", "i", "r", " ", "P", "l", "a", "y">>
    [] s = "https://drive.google.com/file" ->
         <<"h", "t", "t", "p", "s", ":", "/", "/", "d", "r", "i", "v", "e", ".", "g", "o", "o", "g", "l", "e", ".", "c", "o", "m", "/", "f", "i", "l", "e">>
    [] s = "https://drive.google.com/a/ucsc.edu/file" ->
         <<"h", "t", "t", "p", "s", ":", "/", "/", "d", "r", "i", "v", "e", ".", "g", "o", "o", "g", "l", "e", ".", "c", "o", "m", "/", "a", "/", "u", "c", "s", "c", ".", "e", "d", "u", "/", "f", "i", "l", "e">>
    [] s = "/d/" ->
         <<"/", "d", "/">>
    [] s = "/view?usp=sharing" ->
         <<"/", "v", "i", "e", "w", "?", "u", "s", "p", "=", "s", "h", "a", "r", "i", "n", "g">>
    [] s = "https://drive.google.com/uc?export=download&id=" ->
         <<"h", "t", "t", "p", "s", ":", "/", "/", "d", "r", "i", "v", "e", ".", "g", "o", "o", "g", "l", "e", ".", "c", "o", "m", "/", "u", "c", "?", "e", "x", "p", "o", "r", "t", "=", "d", "o", "w", "n", "l", "o", "a", "d", "&", "i", "d", "=">>
    [] s = "XYZ789" ->
         <<"X", "Y", "Z", "7", "8", "9">>
    [] s = "ABC123" ->
         <<"A", "B", "C", "1", "2", "3">>
    [] s = "a" ->
         <<"a">>
    [] s = "1-_d" ->
         <<"1", "-", "_", "d">>
    [] s = "d" ->
         <<"d">>

UpperCase == <<"A", "B", "C", "D", "E", "F", "G", "H", "I", "J", "K", "L", "M",
               "N", "O", "P", "Q", "R", "S", "T", "U", "V", "W", "X", "Y", "Z">>

LowerCase == <<"a", "b", "c", "d", "e", "f", "g", "h", "i", "j", "k", "l", "m",
               "n", "o", "p", "q", "r", "s", "t", "u", "v", "w", "x", "y", "z">>

\* String.prototype.toLowerCase, on the characters of a string
toLowerCase(cs) ==
  [i \in 1..Len(cs) |->
     IF \E k \in 1..26 : UpperCase[k] = cs[i]
     THEN LowerCase[CHOOSE k \in 1..26 : UpperCase[k] = cs[i]]
     ELSE cs[i]]

\* String.prototype.includes, on the characters of both strings
includes(cs, sub) ==
  \E i \in 0..(Len(cs) - Len(sub)) : SubSeq(cs, i + 1, i + Len(sub)) = sub

\* a JavaScript string is truthy when it is not empty
Truthy(s) == s # ""

----------------------------------------------------------------------------
(* The outside world: what the search provider may cite and what the cited *)
(* pages hold.  An anchor is its href attribute and its visible text.      *)

SpringNews == "https://www.chess.com/news/2026-spring-ccl"
SpringClub == "https://www.chess.com/clubs/Spring-2026-signup"
FallNews == "https://www.chess.com/news/2026-fall-ccl"
FallRecap == "https://www.chess.com/news/2026-fall-recap"
IndiaNews == "https://www.chess.com/india-2026-spring"
LastYearNews == "https://www.chess.com/news/2025-spring-ccl"

ViewerLink == "https://drive.google.com/file/d/ABC123/view"
DirectLink == "https://example.com/rules.pdf"
FormLink == "https://forms.gle/reg"

Anchor(href, text) == [href |-> href, text |-> text]

Page(url) ==
  CASE url = SpringNews ->
         << Anchor(ViewerLink, "Download PDF"), Anchor(FormLink, "Register") >>
    [] url = SpringClub ->
         << Anchor("https://chess.com/register", "Register"),
            Anchor("", "Home"), Anchor(FormLink, "Sign Up") >>
    [] url = FallNews ->
         << Anchor(DirectLink, "Rules"), Anchor(ViewerLink, "Download PDF") >>
    [] OTHER ->
         << Anchor("https://www.chess.com/home", "Home") >>

\* the citation lists the search provider may answer with (data.citations)
CitationLists ==
  { <<>>, <<SpringNews>>, <<SpringNews, SpringNews>>, <<SpringClub, SpringNews>>,
    <<FallNews, IndiaNews>>, <<FallRecap, LastYearNews>> }

Seasons == {"spring", "fall"}
Years == {"2026"}
\* the years the number input of the step-manager page is set to
PageYears == {"2026", "2025"}

----------------------------------------------------------------------------
(* run-ccl-search: the citation filter and the link classification.        *)

\* a variant of KeepSource that compares the url as it is written
KeepSourceCaseSensitive(url, season, year) ==
  LET lowerSeason == toLowerCase(Chars(season))
  IN  /\ includes(Chars(url), Chars(year))
      /\ includes(Chars(url), lowerSeason)
      /\ ~includes(Chars(url), Chars("india"))

\* rawSources.filter(url => ...) : the predicate
KeepSource(url, season, year) ==
  LET lowerUrl == toLowerCase(Chars(url))
      lowerSeason == toLowerCase(Chars(season))
  IN  /\ includes(lowerUrl, Chars(year))
      /\ includes(lowerUrl, lowerSeason)
      /\ ~includes(lowerUrl, Chars("india"))

\* Array.prototype.filter
RECURSIVE Filter(_, _, _)
Filter(urls, season, year) ==
  IF urls = <<>> THEN <<>>
  ELSE LET rest == Filter(Tail(urls), season, year)
       IN  IF KeepSource(Head(urls), season, year)
           THEN <<Head(urls)>> \o rest ELSE rest

filteredSources(rawSources, season, year) == Filter(rawSources, season, year)

\* addLink: push the link unless the array already holds it
addLink(arr, link) ==
  IF \E k \in 1..Len(arr) : arr[k] = link THEN arr ELSE Append(arr, link)

\* a variant of IsExcluded that knows the register path alone
IsExcludedRegisterOnly(lowerHref) ==
  includes(lowerHref, Chars("chess.com/register"))

\* the conditions of the five buckets, on the lower-cased href and text
IsExcluded(lowerHref) ==
  \/ includes(lowerHref, Chars("chess.com/register"))
  \/ includes(lowerHref, Chars("chess.com/login"))

\* a variant of IsPdf that takes every link to the docs host
IsPdfAnyDocsHost(lowerHref, text) ==
  \/ includes(text, Chars("pdf"))
  \/ includes(lowerHref, Chars(".pdf"))
  \/ includes(lowerHref, Chars("drive.google.com"))
  \/ includes(lowerHref, Chars("docs.google.com"))

IsPdf(lowerHref, text) ==
  \/ includes(text, Chars("pdf"))
  \/ includes(lowerHref, Chars(".pdf"))
  \/ includes(lowerHref, Chars("drive.google.com"))
  \/ /\ includes(lowerHref, Chars("docs.google.com"))
     /\ ~includes(lowerHref, Chars("/forms/"))

IsInstructions(lowerHref, text) == includes(text, Chars("instruction"))

IsRegistration(lowerHref, text) ==
  \/ includes(text, Chars("registration"))
  \/ includes(text, Chars("register"))
  \/ includes(text, Chars("sign up"))
  \/ includes(lowerHref, Chars("forms.gle"))
  \/ includes(lowerHref, Chars("docs.google.com/forms"))

IsFairPlay(lowerHref, text) ==
  \/ includes(lowerHref, Chars("fairplay-agreement"))
  \/ /\ includes(text, Chars("fair play"))
     /\ ~includes(lowerHref, Chars("user-agreement"))
     /\ ~includes(lowerHref, Chars("/cheating"))
     /\ ~includes(lowerHref, Chars("legal"))

IsPlatform(lowerHref, text) == includes(lowerHref, Chars("pcl.gg"))

\* the body of $('a').each: one anchor added to the buckets of result
EachAnchor(result, a) ==
  LET href == a.href
      text == toLowerCase(Chars(a.text))
      lowerHref == toLowerCase(Chars(href))
  IN  IF ~Truthy(href) THEN result
      ELSE IF IsExcluded(lowerHref) THEN result
      ELSE [ url |-> result.url,
             pdf |-> IF IsPdf(lowerHref, text)
                     THEN addLink(result.pdf, href) ELSE result.pdf,
             instructions |-> IF IsInstructions(lowerHref, text)
                     THEN addLink(result.instructions, href)
                     ELSE result.instructions,
             registration |-> IF IsRegistration(lowerHref, text)
                     THEN addLink(result.registration, href)
                     ELSE result.registration,
             fairPlay |-> IF IsFairPlay(lowerHref, text)
                     THEN addLink(result.fairPlay, href) ELSE result.fairPlay,
             platform |-> IF IsPlatform(lowerHref, text)
                     THEN addLink(result.platform, href) ELSE result.platform ]

RECURSIVE EachFrom(_, _)
EachFrom(result, anchors) ==
  IF anchors = <<>> THEN result
  ELSE EachFrom(EachAnchor(result, Head(anchors)), Tail(anchors))

\* the result object of one fetched page
NoLinks(url) ==
  [url |-> url, pdf |-> <<>>, instructions |-> <<>>,
   registration |-> <<>>, fairPlay |-> <<>>, platform |-> <<>>]

Scrape(url) == EachFrom(NoLinks(url), Page(url))

\* a variant of HasLinks that takes every fetched page as a candidate
HasLinksAlways(result) == Len(result.pdf) >= 0

\* the page yields a candidate: some bucket is not empty
HasLinks(result) ==
  \/ Len(result.pdf) > 0
  \/ Len(result.instructions) > 0
  \/ Len(result.registration) > 0
  \/ Len(result.fairPlay) > 0
  \/ Len(result.platform) > 0

\* every url the provider may cite
CitedUrls == UNION {{l[k] : k \in 1..Len(l)} : l \in CitationLists}

\* Scrape and filteredSources tabulated over the outside world
Scraped == [url \in CitedUrls |-> Scrape(url)]

Filtered ==
  [rawSources \in CitationLists |->
     [season \in Seasons |->
        [year \in Years \cup PageYears |->
           filteredSources(rawSources, season, year)]]]

\* a variant of ScrapeAll that gives up the rest of the urls at the first
\* fetch that fails
RECURSIVE ScrapeAllStopsAtFailure(_, _, _)
ScrapeAllStopsAtFailure(urls, ok, k) ==
  IF k > Len(urls) THEN <<>>
  ELSE IF ~ok[k] THEN <<>>
  ELSE LET rest == ScrapeAllStopsAtFailure(urls, ok, k + 1)
           result == Scraped[urls[k]]
       IN  IF HasLinks(result) THEN <<result>> \o rest ELSE rest

\* the loop over filteredSources: ok[k] says whether the fetch of the k-th url
\* answered with a success status (otherwise the url is logged and skipped)
RECURSIVE ScrapeAll(_, _, _)
ScrapeAll(urls, ok, k) ==
  IF k > Len(urls) THEN <<>>
  ELSE LET rest == ScrapeAll(urls, ok, k + 1)
           result == Scraped[urls[k]]
       IN  IF ok[k] /\ HasLinks(result) THEN <<result>> \o rest ELSE rest

\* the empty string as a storage URL (a storage URL is a sequence)
NoUrl == <<>>

\* a variant of FirstOr that takes the last link of the bucket
FirstOrTakesLast(arr) == IF Len(arr) > 0 THEN arr[Len(arr)] ELSE ""

\* arr[0] || ''
FirstOr(arr) == IF Len(arr) > 0 THEN arr[1] ELSE ""

\* a variant of tournamentData that fills the registration link from the
\* instructions bucket
tournamentDataCopyPaste(result, season, year) ==
  [ season |-> season,
    year |-> year,
    source |-> result.url,
    pdf |-> FirstOr(result.pdf),
    pdfStorageUrl |-> NoUrl,
    instructions |-> FirstOr(result.instructions),
    registration |-> FirstOr(result.instructions),
    fairPlay |-> FirstOr(result.fairPlay),
    platform |-> FirstOr(result.platform),
    tournamentInfo |-> "" ]

\* the document addDoc writes for one result
tournamentData(result, season, year) ==
  [ season |-> season,
    year |-> year,
    source |-> result.url,
    pdf |-> FirstOr(result.pdf),
    pdfStorageUrl |-> NoUrl,
    instructions |-> FirstOr(result.instructions),
    registration |-> FirstOr(result.registration),
    fairPlay |-> FirstOr(result.fairPlay),
    platform |-> FirstOr(result.platform),
    tournamentInfo |-> "" ]

----------------------------------------------------------------------------
(* The Firestore collection and the storage bucket.                        *)

\* query(tournamentsRef, where season, where year) then getDocs: the documents
\* of the key, in the order of their ids
Matching(season, year) ==
  {id \in DOMAIN store : store[id].season = season /\ store[id].year = year}

getDocs(season, year) ==
  LET ids == Matching(season, year)
  IN  [k \in 1..Cardinality(ids) |->
         LET id == CHOOSE x \in ids : Cardinality({y \in ids : y < x}) = k - 1
         IN  [id |-> id, data |-> store[id]]]

\* querySnapshot.docs.map(doc => doc.data())
DataOf(docs) == [k \in 1..Len(docs) |-> docs[k].data]

\* ids addDoc can still give out
FreeIds == DocIds \ DOMAIN store

----------------------------------------------------------------------------
(* Requests.  A request slot holds the handler's local variables, where it *)
(* stands (pc), its response once it has one, and what it has done so far: *)
(* failed holds the items (the positions of the urls of discover, the ids  *)
(* of the documents of archive) whose processing failed and was logged,    *)
(* prev the tournamentInfo that extract replaced.                          *)

Idle ==
  [ kind |-> "none", method |-> "", season |-> "", year |-> "", pc |-> "idle",
    docs |-> <<>>, i |-> 0, results |-> <<>>, sources |-> <<>>,
    url |-> NoUrl, info |-> "",
    status |-> 0, message |-> "", exists |-> FALSE, body |-> <<>>,
    searched |-> FALSE, fetched |-> 0, inserted |-> {}, uploaded |-> {},
    wrote |-> {}, invoked |-> FALSE, logged |-> 0, before |-> {},
    failed |-> {}, prev |-> "" ]

\* A response is delivered before any other request moves: delivering it
\* touches the slot alone, so it commutes with every step of the others.
NoneDone == \A q \in Procs : req[q].pc # "done"

\* the handler of that kind, in slot p, stands at pc
At(p, kind, pc) == req[p].kind = kind /\ req[p].pc = pc /\ NoneDone

\* what a caller may send: the method and the two parameters, each of which
\* may be missing
Inputs(expected) ==
  {<<expected, season, year>> : season \in Seasons, year \in Years}
  \cup {<<IF expected = "POST" THEN "GET" ELSE "POST", "spring", "2026">>,
        <<expected, "", "2026">>, <<expected, "spring", "">>}

\* res.status(code).json({message, ...}) and return: the handler's local
\* variables are gone, the response and the record of what it did remain
Respond(r, code, message) ==
  [r EXCEPT !.pc = "done", !.status = code, !.message = message,
            !.docs = <<>>, !.i = 0, !.results = <<>>, !.url = NoUrl,
            !.info = ""]

\* a variant of Accept without the check of the two parameters
AcceptNoParamCheck(p, kind, method, season, year, expected) ==
  /\ req[p].pc = "idle"
  /\ NoneDone
  /\ \A q \in Procs : q < p => req[q].pc # "idle"
  /\ LET r == [Idle EXCEPT !.kind = kind, !.method = method,
                           !.season = season, !.year = year]
     IN  req' = [req EXCEPT ![p] =
           IF method # expected THEN Respond(r, 405, "Method not allowed")
           ELSE [r EXCEPT !.pc = "query"]]

\* the first lines of every handler: the method and the two parameters.
\* A new request takes the lowest free slot.
Accept(p, kind, method, season, year, expected) ==
  /\ req[p].pc = "idle"
  /\ NoneDone
  /\ \A q \in Procs : q < p => req[q].pc # "idle"
  /\ LET r == [Idle EXCEPT !.kind = kind, !.method = method,
                           !.season = season, !.year = year]
     IN  req' = [req EXCEPT ![p] =
           IF method # expected THEN Respond(r, 405, "Method not allowed")
           ELSE IF ~Truthy(season) \/ ~Truthy(year)
                THEN Respond(r, 400, "Season and year are required")
                ELSE [r EXCEPT !.pc = "query"]]

\* a request of a caller other than the page
Enter(p, kind, method, season, year, expected) ==
  /\ Accept(p, kind, method, season, year, expected)
  /\ UNCHANGED <<store, blobs, archived, call, page, rag>>

\* no function has been applied
NoCall == [fn |-> "none"]

\* the page before its first effect has run: the useState defaults
FirstRender ==
  [ season |-> "spring", year |-> "2026",
    searchStatus |-> "idle", searchData |-> <<>>,
    uploadStatus |-> "idle", uploadData |-> <<>>,
    extractStatus |-> "idle", extractData |-> <<>>,
    mounted |-> FALSE, waits |-> [p \in Procs |-> "none"],
    touched |-> FALSE ]

\* a call of initializePdfProcessing that has not started
NoInit == [ pc |-> "idle", build |-> 0, vectorStore |-> 0, qaChain |-> 0 ]

\* let _vectorStore = null; let _qaChain = null; and no call in flight
NotBuilt ==
  [ vectorStore |-> 0, qaChain |-> 0,
    calls |-> [c \in Callers |-> NoInit],
    builds |-> 0, clears |-> 0, started |-> <<>>, built |-> {} ]

Init ==
  /\ store = <<>>
  /\ blobs = {}
  /\ req = [p \in Procs |-> Idle]
  /\ archived = {}
  /\ call = NoCall
  /\ page = FirstRender
  /\ rag = NotBuilt

----------------------------------------------------------------------------
(* run-ccl-search (discover)                                               *)

RunCclSearchEnter(p) ==
  \E in \in Inputs("POST") : Enter(p, "discover", in[1], in[2], in[3], "POST")

\* a variant of RunCclSearchCheck without the existence check: the call goes
\* on to the search whatever the query finds
RunCclSearchCheckAlwaysSearches(p) ==
  /\ At(p, "discover", "query")
  /\ \/ req' = [req EXCEPT ![p] =
             [@ EXCEPT !.pc = "search", !.before = DOMAIN store]]
     \/ req' = [req EXCEPT ![p] = [Respond(@, 500, "Internal server error")
                                     EXCEPT !.logged = @ + 1]]
  /\ UNCHANGED <<store, blobs, archived, call, page, rag>>

\* the existence check: a record of the key ends the call
RunCclSearchCheck(p) ==
  /\ At(p, "discover", "query")
  /\ \/ LET querySnapshot == getDocs(req[p].season, req[p].year)
        IN  req' = [req EXCEPT ![p] =
              IF querySnapshot # <<>>
              THEN [Respond(@, 200, "already exists") EXCEPT
                      !.exists = TRUE, !.body = DataOf(querySnapshot)]
              ELSE [@ EXCEPT !.pc = "search", !.before = DOMAIN store]]
     \/ req' = [req EXCEPT ![p] = [Respond(@, 500, "Internal server error")
                                     EXCEPT !.logged = @ + 1]]
  /\ UNCHANGED <<store, blobs, archived, call, page, rag>>

\* a variant of RunCclSearchScrape that answers 404 when no page yields a
\* candidate
RunCclSearchScrapeNotFoundWhenEmpty(p) ==
  /\ At(p, "discover", "search")
  /\ \/ \* perplexityResponse.ok is false, or the fetch throws
        req' = [req EXCEPT ![p] =
                  [Respond(@, 500, "Internal server error") EXCEPT
                     !.searched = TRUE, !.logged = @ + 1]]
     \/ \E rawSources \in CitationLists :
          LET sources == Filtered[rawSources][req[p].season][req[p].year]
          IN  \E ok \in [1..Len(sources) -> BOOLEAN] :
                LET results == ScrapeAll(sources, ok, 1)
                    failed == Cardinality({k \in 1..Len(sources) : ~ok[k]})
                    r == [req[p] EXCEPT !.searched = TRUE,
                                        !.failed =
                                          {k \in 1..Len(sources) : ~ok[k]},
                                        !.fetched = Len(sources),
                                        !.sources = sources,
                                        !.results = results,
                                        !.logged = @ + failed]
                IN  req' = [req EXCEPT ![p] =
                      IF results = <<>>
                      THEN Respond(r, 404, "No tournaments found")
                      ELSE [r EXCEPT !.pc = "insert", !.i = 1]]
  /\ UNCHANGED <<store, blobs, archived, call, page, rag>>

\* the search provider call, the citation filter and the scrape of every
\* surviving url; none of them reads or writes the store
RunCclSearchScrape(p) ==
  /\ At(p, "discover", "search")
  /\ \/ \* perplexityResponse.ok is false, or the fetch throws
        req' = [req EXCEPT ![p] =
                  [Respond(@, 500, "Internal server error") EXCEPT
                     !.searched = TRUE, !.logged = @ + 1]]
     \/ \E rawSources \in CitationLists :
          LET sources == Filtered[rawSources][req[p].season][req[p].year]
          IN  \E ok \in [1..Len(sources) -> BOOLEAN] :
                LET results == ScrapeAll(sources, ok, 1)
                    failed == Cardinality({k \in 1..Len(sources) : ~ok[k]})
                    r == [req[p] EXCEPT !.searched = TRUE,
                                        !.failed =
                                          {k \in 1..Len(sources) : ~ok[k]},
                                        !.fetched = Len(sources),
                                        !.sources = sources,
                                        !.results = results,
                                        !.logged = @ + failed]
                IN  req' = [req EXCEPT ![p] =
                      IF results = <<>>
                      THEN Respond(r, 200, "Search and save completed")
                      ELSE [r EXCEPT !.pc = "insert", !.i = 1]]
  /\ UNCHANGED <<store, blobs, archived, call, page, rag>>

\* a variant of RunCclSearchInsert that refreshes the key: it drops the
\* records the key has before it writes the new one
RunCclSearchInsertRefreshesKey(p) ==
  /\ At(p, "discover", "insert")
  /\ LET data == tournamentData(req[p].results[req[p].i],
                                req[p].season, req[p].year)
         kept == DOMAIN store \ Matching(req[p].season, req[p].year)
     IN  \/ \E id \in DocIds \ kept :
              /\ store' = (id :> data) @@ [x \in kept |-> store[x]]
              /\ LET r == [req[p] EXCEPT !.body = Append(@, data),
                                         !.inserted = @ \cup {id},
                                         !.i = @ + 1]
                 IN  req' = [req EXCEPT ![p] =
                       IF r.i > Len(r.results)
                       THEN Respond(r, 200, "Search and save completed")
                       ELSE r]
         \/ /\ req' = [req EXCEPT ![p] =
                         [Respond(@, 500, "Internal server error") EXCEPT
                            !.logged = @ + 1]]
            /\ UNCHANGED store
  /\ UNCHANGED <<blobs, archived, call, page, rag>>

\* one turn of the loop over results: addDoc, then savedData.push
RunCclSearchInsert(p) ==
  /\ At(p, "discover", "insert")
  /\ LET data == tournamentData(req[p].results[req[p].i],
                                req[p].season, req[p].year)
     IN  \/ \E id \in FreeIds :
              /\ store' = (id :> data) @@ store
              /\ LET r == [req[p] EXCEPT !.body = Append(@, data),
                                         !.inserted = @ \cup {id},
                                         !.i = @ + 1]
                 IN  req' = [req EXCEPT ![p] =
                       IF r.i > Len(r.results)
                       THEN Respond(r, 200, "Search and save completed")
                       ELSE r]
         \/ \* addDoc throws
            /\ req' = [req EXCEPT ![p] =
                         [Respond(@, 500, "Internal server error") EXCEPT
                            !.logged = @ + 1]]
            /\ UNCHANGED store
  /\ UNCHANGED <<blobs, archived, call, page, rag>>

----------------------------------------------------------------------------
(* upload-ccl-pdf (archive)                                                *)

\* pdfLink.match(/\/d\/(.+?)\//): the first "/d/" that is followed by at
\* least one character and then a "/"; the group is the shortest such run.
\* The result is the group, or <<>> when there is no match.
MatchAt(cs, i) ==
  /\ i + 2 <= Len(cs)
  /\ cs[i] = "/" /\ cs[i + 1] = "d" /\ cs[i + 2] = "/"
  /\ \E j \in (i + 4)..Len(cs) : cs[j] = "/"

\* a variant of driveIdMatch that takes the whole match in place of the group
driveIdMatchWholeMatch(cs) ==
  IF \E i \in 1..Len(cs) : MatchAt(cs, i)
  THEN LET i == CHOOSE x \in 1..Len(cs) :
                  MatchAt(cs, x) /\ \A y \in 1..(x - 1) : ~MatchAt(cs, y)
           j == CHOOSE x \in (i + 4)..Len(cs) :
                  cs[x] = "/" /\ \A y \in (i + 4)..(x - 1) : cs[y] # "/"
       IN  SubSeq(cs, i, j)
  ELSE <<>>

driveIdMatch(cs) ==
  IF \E i \in 1..Len(cs) : MatchAt(cs, i)
  THEN LET i == CHOOSE x \in 1..Len(cs) :
                  MatchAt(cs, x) /\ \A y \in 1..(x - 1) : ~MatchAt(cs, y)
           j == CHOOSE x \in (i + 4)..Len(cs) :
                  cs[x] = "/" /\ \A y \in (i + 4)..(x - 1) : cs[y] # "/"
       IN  SubSeq(cs, i + 3, j - 1)
  ELSE <<>>

\* `https://drive.google.com/uc?export=download&id=${fileId}`, as characters
downloadUrl(fileId) ==
  Chars("https://drive.google.com/uc?export=download&id=") \o fileId

\* `ccl/${season}/${year}/${Date.now()}_ccl_${season}_${year}.pdf`
fileName(season, year, now) == <<"ccl", season, year, now>>

\* getDownloadURL(storageRef): the durable URL of the blob at that path
getDownloadURL(path) == <<"https://firebasestorage.googleapis.com">> \o path

\* Date.now(): the clock never runs backwards, so it reads no less than the
\* latest time stamp an upload has used
DateNow ==
  LET past == {path[4] : path \in blobs}
  IN  {t \in 0..MaxClock : \A u \in past : u <= t}

\* a variant of NeedsUpload that uploads again what is already stored
NeedsUploadAgain(data) == Truthy(data.pdf)

\* the branch the loop takes for a document: data.pdf && !data.pdfStorageUrl
NeedsUpload(data) == Truthy(data.pdf) /\ data.pdfStorageUrl = NoUrl

\* driveIdMatch && driveIdMatch[1]
HasDriveId(data) == driveIdMatch(Chars(data.pdf)) # <<>>

\* the loop moves to the next document, or the handler answers
NextDoc(r) ==
  IF r.i + 1 > Len(r.docs)
  THEN Respond(r, 200, "PDF processing completed")
  ELSE [r EXCEPT !.pc = "loop", !.i = @ + 1]

UploadCclPdfEnter(p) ==
  \E in \in Inputs("POST") : Enter(p, "archive", in[1], in[2], in[3], "POST")

\* a variant of UploadCclPdfQuery without the not-found answer: an empty
\* snapshot runs the loop zero times and answers 200
UploadCclPdfQueryNoNotFound(p) ==
  /\ At(p, "archive", "query")
  /\ \/ LET querySnapshot == getDocs(req[p].season, req[p].year)
        IN  req' = [req EXCEPT ![p] =
              IF querySnapshot = <<>>
              THEN Respond(@, 200, "PDF processing completed")
              ELSE [@ EXCEPT !.pc = "loop", !.docs = querySnapshot, !.i = 1]]
     \/ req' = [req EXCEPT ![p] = [Respond(@, 500, "Internal server error")
                                     EXCEPT !.logged = @ + 1]]
  /\ UNCHANGED <<store, blobs, archived, call, page, rag>>

UploadCclPdfQuery(p) ==
  /\ At(p, "archive", "query")
  /\ \/ LET querySnapshot == getDocs(req[p].season, req[p].year)
        IN  req' = [req EXCEPT ![p] =
              IF querySnapshot = <<>>
              THEN Respond(@, 404, "No tournament info found")
              ELSE [@ EXCEPT !.pc = "loop", !.docs = querySnapshot, !.i = 1]]
     \/ req' = [req EXCEPT ![p] = [Respond(@, 500, "Internal server error")
                                     EXCEPT !.logged = @ + 1]]
  /\ UNCHANGED <<store, blobs, archived, call, page, rag>>

\* a variant of UploadCclPdfDoc in which a failed download or upload ends the
\* call with an error instead of moving to the next document
UploadCclPdfDocAbortsOnFailure(p) ==
  /\ At(p, "archive", "loop")
  /\ LET document == req[p].docs[req[p].i]
         data == document.data
     IN  IF NeedsUpload(data)
         THEN IF HasDriveId(data)
              THEN \/ \* the download answers ok and uploadBytes succeeds
                      \E now \in DateNow :
                        LET path == fileName(req[p].season, req[p].year, now)
                        IN  /\ blobs' = blobs \cup {path}
                            /\ req' = [req EXCEPT ![p] =
                                 [@ EXCEPT !.pc = "update",
                                           !.fetched = @ + 1,
                                           !.uploaded = @ \cup {document.id},
                                           !.url = getDownloadURL(path)]]
                   \/ \* the download is not ok, or fetch or uploadBytes throws
                      /\ req' = [req EXCEPT ![p] =
                           Respond([@ EXCEPT !.fetched = @ + 1,
                                             !.failed = @ \cup {document.id},
                                             !.logged = @ + 1],
                                   500, "Internal server error")]
                      /\ UNCHANGED blobs
              ELSE /\ req' = [req EXCEPT ![p] = NextDoc(@)]
                   /\ UNCHANGED blobs
         ELSE /\ req' = [req EXCEPT ![p] =
                   IF data.pdfStorageUrl # NoUrl
                   THEN NextDoc([@ EXCEPT !.body = Append(@,
                          [id |-> document.id,
                           pdfStorageUrl |-> data.pdfStorageUrl,
                           exists |-> TRUE])])
                   ELSE NextDoc(@)]
              /\ UNCHANGED blobs
  /\ UNCHANGED <<store, archived, call, page, rag>>

\* one document of the snapshot, up to and including uploadBytes
UploadCclPdfDoc(p) ==
  /\ At(p, "archive", "loop")
  /\ LET document == req[p].docs[req[p].i]
         data == document.data
     IN  IF NeedsUpload(data)
         THEN IF HasDriveId(data)
              THEN \/ \* the download answers ok and uploadBytes succeeds
                      \E now \in DateNow :
                        LET path == fileName(req[p].season, req[p].year, now)
                        IN  /\ blobs' = blobs \cup {path}
                            /\ req' = [req EXCEPT ![p] =
                                 [@ EXCEPT !.pc = "update",
                                           !.fetched = @ + 1,
                                           !.uploaded = @ \cup {document.id},
                                           !.url = getDownloadURL(path)]]
                   \/ \* the download is not ok, or fetch or uploadBytes throws
                      /\ req' = [req EXCEPT ![p] =
                           NextDoc([@ EXCEPT !.fetched = @ + 1,
                                             !.failed = @ \cup {document.id},
                                             !.logged = @ + 1])]
                      /\ UNCHANGED blobs
              ELSE /\ req' = [req EXCEPT ![p] = NextDoc(@)]
                   /\ UNCHANGED blobs
         ELSE /\ req' = [req EXCEPT ![p] =
                   IF data.pdfStorageUrl # NoUrl
                   THEN NextDoc([@ EXCEPT !.body = Append(@,
                          [id |-> document.id,
                           pdfStorageUrl |-> data.pdfStorageUrl,
                           exists |-> TRUE])])
                   ELSE NextDoc(@)]
              /\ UNCHANGED blobs
  /\ UNCHANGED <<store, archived, call, page, rag>>

\* a variant of UploadCclPdfUpdate that updates the first document of the
\* snapshot instead of the one the loop stands at
UploadCclPdfUpdateFirstDoc(p) ==
  /\ At(p, "archive", "update")
  /\ LET document == req[p].docs[1]
     IN  \/ /\ store' = [store EXCEPT
                           ![document.id].pdfStorageUrl = req[p].url]
            /\ req' = [req EXCEPT ![p] =
                 NextDoc([@ EXCEPT !.wrote = @ \cup {document.id},
                                   !.body = Append(@,
                                     [id |-> document.id,
                                      pdfStorageUrl |-> req[p].url,
                                      exists |-> FALSE])])]
         \/ /\ req' = [req EXCEPT ![p] =
                 NextDoc([@ EXCEPT !.failed = @ \cup {document.id},
                                   !.logged = @ + 1])]
            /\ UNCHANGED store
  /\ UNCHANGED <<blobs, archived, call, page, rag>>

\* getDownloadURL, updateDoc and updatedDocs.push for the uploaded document
UploadCclPdfUpdate(p) ==
  /\ At(p, "archive", "update")
  /\ LET document == req[p].docs[req[p].i]
     IN  \/ /\ store' = [store EXCEPT
                           ![document.id].pdfStorageUrl = req[p].url]
            /\ req' = [req EXCEPT ![p] =
                 NextDoc([@ EXCEPT !.wrote = @ \cup {document.id},
                                   !.body = Append(@,
                                     [id |-> document.id,
                                      pdfStorageUrl |-> req[p].url,
                                      exists |-> FALSE])])]
         \/ \* getDownloadURL or updateDoc throws
            /\ req' = [req EXCEPT ![p] =
                 NextDoc([@ EXCEPT !.failed = @ \cup {document.id},
                                   !.logged = @ + 1])]
            /\ UNCHANGED store
  /\ UNCHANGED <<blobs, archived, call, page, rag>>

----------------------------------------------------------------------------
(* extract-ccl-info (extract)                                              *)

\* the markdown code fence tokens (three backquotes, with and without json)
FenceJson == "fence-json"
Fence == "fence"

\* what the language model may answer (result.content), as tokens
LlmContents ==
  { <<FenceJson, "\n", "{A}", "\n", Fence>>, <<"{B}">>,
    <<"Here", " ", "{A}">> }

RECURSIVE Remove(_, _)
Remove(ts, tok) ==
  IF ts = <<>> THEN <<>>
  ELSE IF Head(ts) = tok THEN Remove(Tail(ts), tok)
       ELSE <<Head(ts)>> \o Remove(Tail(ts), tok)

IsSpace(tok) == tok \in {" ", "\n"}

RECURSIVE trim(_)
trim(ts) ==
  IF ts = <<>> THEN <<>>
  ELSE IF IsSpace(Head(ts)) THEN trim(Tail(ts))
  ELSE IF IsSpace(ts[Len(ts)]) THEN trim(SubSeq(ts, 1, Len(ts) - 1))
  ELSE ts

\* result.content.replace(/FENCEjson/g, '').replace(/FENCE/g, '').trim(),
\* FENCE being the three backquotes of a markdown code fence
CleanContent(content) == trim(Remove(Remove(content, FenceJson), Fence))

\* JSON.parse: the text is one JSON value, or the parse throws
ParsesAsJson(ts) == Len(ts) = 1 /\ ts[1] \in {"{A}", "{B}"}

ExtractCclInfoEnter(p) ==
  \E in \in Inputs("POST") : Enter(p, "extract", in[1], in[2], in[3], "POST")

\* a variant of ExtractCclInfoQuery without the check that the PDF is stored
ExtractCclInfoQueryNoPrecondition(p) ==
  /\ At(p, "extract", "query")
  /\ \/ LET querySnapshot == getDocs(req[p].season, req[p].year)
        IN  req' = [req EXCEPT ![p] =
              IF querySnapshot = <<>>
              THEN Respond(@, 404, "No tournament info found")
              ELSE [@ EXCEPT !.pc = "invoke",
                             !.docs = <<querySnapshot[1]>>, !.i = 1]]
     \/ req' = [req EXCEPT ![p] = [Respond(@, 500, "Internal server error")
                                     EXCEPT !.logged = @ + 1]]
  /\ UNCHANGED <<store, blobs, archived, call, page, rag>>

\* a variant of ExtractCclInfoQuery that tests the document link in place of
\* the storage URL
ExtractCclInfoQueryTestsPdf(p) ==
  /\ At(p, "extract", "query")
  /\ \/ LET querySnapshot == getDocs(req[p].season, req[p].year)
        IN  req' = [req EXCEPT ![p] =
              IF querySnapshot = <<>>
              THEN Respond(@, 404, "No tournament info found")
              ELSE IF ~Truthy(querySnapshot[1].data.pdf)
                   THEN Respond(@, 400, "PDF has not been uploaded yet.")
                   ELSE [@ EXCEPT !.pc = "invoke",
                                  !.docs = <<querySnapshot[1]>>, !.i = 1]]
     \/ req' = [req EXCEPT ![p] = [Respond(@, 500, "Internal server error")
                                     EXCEPT !.logged = @ + 1]]
  /\ UNCHANGED <<store, blobs, archived, call, page, rag>>

\* the lookup of the record and the two checks on it
ExtractCclInfoQuery(p) ==
  /\ At(p, "extract", "query")
  /\ \/ LET querySnapshot == getDocs(req[p].season, req[p].year)
        IN  req' = [req EXCEPT ![p] =
              IF querySnapshot = <<>>
              THEN Respond(@, 404, "No tournament info found")
              ELSE IF querySnapshot[1].data.pdfStorageUrl = NoUrl
                   THEN Respond(@, 400, "PDF has not been uploaded yet.")
                   ELSE [@ EXCEPT !.pc = "invoke",
                                  !.docs = <<querySnapshot[1]>>, !.i = 1]]
     \/ req' = [req EXCEPT ![p] = [Respond(@, 500, "Internal server error")
                                     EXCEPT !.logged = @ + 1]]
  /\ UNCHANGED <<store, blobs, archived, call, page, rag>>

\* the fetch of the stored PDF, pdf-parse, llm.invoke and JSON.parse
ExtractCclInfoInvoke(p) ==
  /\ At(p, "extract", "invoke")
  /\ \/ \* the fetch is not ok or throws, or pdf-parse throws
        req' = [req EXCEPT ![p] =
                  [Respond(@, 500, "Internal server error") EXCEPT
                     !.fetched = @ + 1, !.logged = @ + 1]]
     \/ \* llm.invoke throws
        req' = [req EXCEPT ![p] =
                  [Respond(@, 500, "Internal server error") EXCEPT
                     !.fetched = @ + 1, !.invoked = TRUE, !.logged = @ + 1]]
     \/ \E content \in LlmContents :
          LET text == CleanContent(content)
              r == [req[p] EXCEPT !.fetched = @ + 1, !.invoked = TRUE]
          IN  req' = [req EXCEPT ![p] =
                IF ParsesAsJson(text)
                THEN [r EXCEPT !.pc = "update", !.info = text[1]]
                ELSE [Respond(r, 500, "Internal server error") EXCEPT
                        !.logged = @ + 2]]
  /\ UNCHANGED <<store, blobs, archived, call, page, rag>>

\* a variant of ExtractCclInfoUpdate that writes the object under the name of
\* another field
ExtractCclInfoUpdateWrongField(p) ==
  /\ At(p, "extract", "update")
  /\ LET docId == req[p].docs[1].id
     IN  \/ /\ store' = [store EXCEPT ![docId].instructions = req[p].info]
            /\ req' = [req EXCEPT ![p] =
                 [Respond(@, 200, "Tournament info extracted and saved successfully")
                    EXCEPT !.wrote = @ \cup {docId}, !.body = <<req[p].info>>,
                           !.prev = store[docId].tournamentInfo]]
         \/ /\ req' = [req EXCEPT ![p] =
                 [Respond(@, 500, "Internal server error") EXCEPT
                    !.logged = @ + 1]]
            /\ UNCHANGED store
  /\ UNCHANGED <<blobs, archived, call, page, rag>>

\* a variant of ExtractCclInfoUpdate that keeps a tournamentInfo the record
\* already has
ExtractCclInfoUpdateKeepsFirst(p) ==
  /\ At(p, "extract", "update")
  /\ LET docId == req[p].docs[1].id
     IN  \/ /\ store' = [store EXCEPT ![docId].tournamentInfo =
                           IF @ = "" THEN req[p].info ELSE @]
            /\ req' = [req EXCEPT ![p] =
                 [Respond(@, 200, "Tournament info extracted and saved successfully")
                    EXCEPT !.wrote = @ \cup {docId}, !.body = <<req[p].info>>,
                           !.prev = store[docId].tournamentInfo]]
         \/ /\ req' = [req EXCEPT ![p] =
                 [Respond(@, 500, "Internal server error") EXCEPT
                    !.logged = @ + 1]]
            /\ UNCHANGED store
  /\ UNCHANGED <<blobs, archived, call, page, rag>>

\* updateDoc(docRef, { tournamentInfo }) and the answer
ExtractCclInfoUpdate(p) ==
  /\ At(p, "extract", "update")
  /\ LET docId == req[p].docs[1].id
     IN  \/ /\ store' = [store EXCEPT ![docId].tournamentInfo = req[p].info]
            /\ req' = [req EXCEPT ![p] =
                 [Respond(@, 200, "Tournament info extracted and saved successfully")
                    EXCEPT !.wrote = @ \cup {docId}, !.body = <<req[p].info>>,
                           !.prev = store[docId].tournamentInfo]]
         \/ \* updateDoc throws
            /\ req' = [req EXCEPT ![p] =
                 [Respond(@, 500, "Internal server error") EXCEPT
                    !.logged = @ + 1]]
            /\ UNCHANGED store
  /\ UNCHANGED <<blobs, archived, call, page, rag>>

----------------------------------------------------------------------------
(* get-ccl-status (status)                                                 *)

GetCclStatusEnter(p) ==
  \E in \in Inputs("GET") : Enter(p, "status", in[1], in[2], in[3], "GET")

\* a variant of GetCclStatusQuery whose query has no where clauses: it
\* answers with the first document of the collection
GetCclStatusQueryNoWhere(p) ==
  /\ At(p, "status", "query")
  /\ \/ LET ids == DOMAIN store
        IN  req' = [req EXCEPT ![p] =
              IF ids = {}
              THEN [Respond(@, 200, "") EXCEPT !.exists = FALSE]
              ELSE [Respond(@, 200, "") EXCEPT
                      !.exists = TRUE,
                      !.body = <<store[CHOOSE x \in ids :
                                         \A y \in ids : x <= y]>>]]
     \/ req' = [req EXCEPT ![p] = [Respond(@, 500, "Internal server error")
                                     EXCEPT !.logged = @ + 1]]
  /\ UNCHANGED <<store, blobs, archived, call, page, rag>>

\* getDocs, then exists: false, or exists: true with the data of docs[0]
GetCclStatusQuery(p) ==
  /\ At(p, "status", "query")
  /\ \/ LET querySnapshot == getDocs(req[p].season, req[p].year)
        IN  req' = [req EXCEPT ![p] =
              IF querySnapshot = <<>>
              THEN [Respond(@, 200, "") EXCEPT !.exists = FALSE]
              ELSE [Respond(@, 200, "") EXCEPT
                      !.exists = TRUE, !.body = <<querySnapshot[1].data>>]]
     \/ req' = [req EXCEPT ![p] = [Respond(@, 500, "Internal server error")
                                     EXCEPT !.logged = @ + 1]]
  /\ UNCHANGED <<store, blobs, archived, call, page, rag>>

----------------------------------------------------------------------------
(* The caller receives the response and the slot is free again.  archived  *)
(* keeps what the archive calls that have returned reported as newly       *)
(* archived: the entries of updatedDocs that are not marked exists.        *)

NewlyArchived(r) ==
  IF r.kind = "archive" /\ r.status = 200
  THEN {[id |-> r.body[k].id, pdfStorageUrl |-> r.body[k].pdfStorageUrl] :
          k \in {n \in 1..Len(r.body) : ~r.body[n].exists}}
  ELSE {}

\* the response of slot p reaches its caller
Deliver(p) ==
  /\ req[p].pc = "done"
  /\ archived' = archived \cup NewlyArchived(req[p])
  /\ req' = [req EXCEPT ![p] = Idle]

\* the response reaches a caller other than the page
Return(p) ==
  /\ Deliver(p)
  /\ UNCHANGED <<store, blobs, call, page, rag>>

\* the steps of the requests in the slots S
NextOf(S) ==
  \E p \in S :
    \/ RunCclSearchEnter(p)
    \/ RunCclSearchCheck(p)
    \/ RunCclSearchScrape(p)
    \/ RunCclSearchInsert(p)
    \/ UploadCclPdfEnter(p)
    \/ UploadCclPdfQuery(p)
    \/ UploadCclPdfDoc(p)
    \/ UploadCclPdfUpdate(p)
    \/ ExtractCclInfoEnter(p)
    \/ ExtractCclInfoQuery(p)
    \/ ExtractCclInfoInvoke(p)
    \/ ExtractCclInfoUpdate(p)
    \/ GetCclStatusEnter(p)
    \/ GetCclStatusQuery(p)
    \/ Return(p)

Next == NextOf(Procs)

Spec == Init /\ [][Next]_vars

\* one request at a time: the caller waits for the response before it sends
\* the next request, so one slot is ever in use
SeqNext == NextOf({1})

SeqSpec == Init /\ [][SeqNext]_vars

----------------------------------------------------------------------------
(* The functions of the handlers applied outside a request: the citation   *)
(* filter to lists of urls, the classification to one anchor, the record   *)
(* of a page to lists of anchors, the link resolution to viewer links.     *)

ExampleRules == "https://example.com/2026-spring-rules"
ExampleIndia == "https://example.com/india-2026-spring"
ExampleLastYear == "https://example.com/2025-spring"
ExampleUpper == "https://example.com/2026-SPRING-Rules"
ExampleIndiaUpper == "https://example.com/INDIA/2026-spring"

FilterUrls ==
  CitedUrls \cup {ExampleRules, ExampleIndia, ExampleLastYear, ExampleUpper,
                  ExampleIndiaUpper}
FilterSeasons == {"spring", "fall", "Spring"}
FilterYears == {"2026", "2025"}

\* the lists of at most two urls
UrlLists ==
  {<<>>} \cup {<<u>> : u \in FilterUrls}
         \cup {<<u, v>> : u \in FilterUrls, v \in FilterUrls}

CallFilter ==
  /\ call = NoCall
  /\ \E rawSources \in UrlLists, season \in FilterSeasons, year \in FilterYears :
       call' = [fn |-> "filter", rawSources |-> rawSources, season |-> season,
                year |-> year,
                out |-> filteredSources(rawSources, season, year)]
  /\ UNCHANGED <<store, blobs, req, archived, page, rag>>

RegisterLink == "https://chess.com/register"
RegisterLinkUpper == "https://www.Chess.com/Register"
LoginLink == "https://www.chess.com/login?next=rules.pdf"
GoogleFormLink == "https://docs.google.com/forms/d/e/1/viewform"
GoogleDocLink == "https://docs.google.com/document/d/1/edit"
PlatformLink == "https://pcl.gg/league"
HomeLink == "https://www.chess.com/home"

Hrefs ==
  {"", ViewerLink, DirectLink, FormLink, RegisterLink, RegisterLinkUpper,
   LoginLink, GoogleFormLink, GoogleDocLink, PlatformLink, HomeLink}
Texts ==
  {"Download PDF", "Register", "Sign Up", "Rules", "Home", "Instructions",
   "Fair Play"}

CallEachAnchor ==
  /\ call = NoCall
  /\ \E href \in Hrefs, text \in Texts :
       call' = [fn |-> "classify", href |-> href, text |-> text,
                out |-> EachAnchor(NoLinks(""), Anchor(href, text))]
  /\ UNCHANGED <<store, blobs, req, archived, page, rag>>

PageAnchors ==
  {Anchor(ViewerLink, "Download PDF"), Anchor(DirectLink, "Rules"),
   Anchor(FormLink, "Register"), Anchor(GoogleFormLink, "Sign Up"),
   Anchor(RegisterLink, "Register"), Anchor(HomeLink, "Home")}

\* the pages of at most three anchors
Pages ==
  {<<>>} \cup {<<a>> : a \in PageAnchors}
         \cup {<<a, b>> : a \in PageAnchors, b \in PageAnchors}
         \cup {<<a, b, c>> : a \in PageAnchors, b \in PageAnchors,
                             c \in PageAnchors}

\* the document discover writes for a page with these anchors
CallPage ==
  /\ call = NoCall
  /\ \E anchors \in Pages :
       call' = [fn |-> "page", anchors |-> anchors,
                out |-> tournamentData(EachFrom(NoLinks(SpringNews), anchors),
                                       "spring", "2026")]
  /\ UNCHANGED <<store, blobs, req, archived, page, rag>>

FileIds == {"XYZ789", "ABC123", "a", "1-_d", "d"}
LinkPrefixes ==
  {"https://drive.google.com/file", "https://drive.google.com/a/ucsc.edu/file"}

\* the download url archive fetches for a viewer link
CallResolve ==
  /\ call = NoCall
  /\ \E id \in FileIds, prefix \in LinkPrefixes :
       LET pdfLink == Chars(prefix) \o Chars("/d/") \o Chars(id)
                        \o Chars("/view?usp=sharing")
       IN  call' = [fn |-> "resolve", id |-> id, pdfLink |-> pdfLink,
                    out |-> downloadUrl(driveIdMatch(pdfLink))]
  /\ UNCHANGED <<store, blobs, req, archived, page, rag>>

\* the result has been looked at
CallDone ==
  /\ call # NoCall
  /\ call' = NoCall
  /\ UNCHANGED <<store, blobs, req, archived, page, rag>>

PureNext ==
  CallFilter \/ CallEachAnchor \/ CallPage \/ CallResolve \/ CallDone

PureSpec == Init /\ [][PureNext]_vars

----------------------------------------------------------------------------
(* The step-manager page.  Each of its fetches sends a request to a handler *)
(* and continues when the response is there; page.waits[p] tells which of  *)
(* its fetches waits for the response of slot p.  touched tells whether a  *)
(* button has been clicked, or the response to a click has arrived, since  *)
(* checkStatus last reset the steps.                                       *)

\* response.ok
Ok(r) == r.status >= 200 /\ r.status <= 299

\* checkStatus up to its fetch, as the effect runs it for the selection
\* (season, year): the six resets and the GET of get-ccl-status
CheckStatus(p, season, year) ==
  /\ Accept(p, "status", "GET", season, year, "GET")
  /\ page' = [page EXCEPT !.season = season, !.year = year,
                          !.mounted = TRUE,
                          !.searchStatus = "idle", !.searchData = <<>>,
                          !.uploadStatus = "idle", !.uploadData = <<>>,
                          !.extractStatus = "idle", !.extractData = <<>>,
                          !.waits[p] = "status", !.touched = FALSE]
  /\ UNCHANGED <<store, blobs, archived, call, rag>>

\* the effect after the first render
Mount(p) ==
  /\ ~page.mounted
  /\ CheckStatus(p, page.season, page.year)

\* the select: setSeason(e.target.value), and the effect that follows
SetSeason(p) ==
  /\ page.mounted
  /\ \E season \in Seasons \ {page.season} :
       CheckStatus(p, season, page.year)

\* the number input: setYear(e.target.value), and the effect that follows
SetYear(p) ==
  /\ page.mounted
  /\ \E year \in PageYears \ {page.year} :
       CheckStatus(p, page.season, year)

\* checkStatus from res.json() on: the steps the answered record shows done
CheckStatusResponse(p) ==
  /\ page.waits[p] = "status"
  /\ Deliver(p)
  /\ LET exists == req[p].exists
         data == req[p].body[1]
         hasPdf == exists /\ data.pdfStorageUrl # NoUrl
         hasInfo == exists /\ data.tournamentInfo # ""
     IN  page' = [page EXCEPT
           !.waits[p] = "none",
           !.searchStatus = IF exists THEN "success" ELSE @,
           !.searchData =
             IF exists THEN <<[exists |-> TRUE, savedData |-> <<data>>]>>
             ELSE @,
           !.uploadStatus = IF hasPdf THEN "success" ELSE @,
           !.uploadData =
             IF hasPdf
             THEN <<[updatedDocs |->
                       <<[pdfStorageUrl |-> data.pdfStorageUrl,
                          exists |-> TRUE]>>]>>
             ELSE @,
           !.extractStatus = IF hasInfo THEN "success" ELSE @,
           !.extractData =
             IF hasInfo THEN <<[tournamentInfo |-> data.tournamentInfo]>>
             ELSE @]
  /\ UNCHANGED <<store, blobs, call, rag>>

\* the page has one request of a button in flight at a time
NoButtonWaits == \A q \in Procs : page.waits[q] \in {"none", "status"}

\* handleSearch up to its fetch; the button is disabled while loading
HandleSearch(p) ==
  /\ page.mounted
  /\ NoButtonWaits
  /\ page.searchStatus # "loading"
  /\ Accept(p, "discover", "POST", page.season, page.year, "POST")
  /\ page' = [page EXCEPT !.searchStatus = "loading",
                          !.waits[p] = "search", !.touched = TRUE]
  /\ UNCHANGED <<store, blobs, archived, call, rag>>

\* handleSearch from response.json() on
HandleSearchResponse(p) ==
  /\ page.waits[p] = "search"
  /\ Deliver(p)
  /\ page' = IF Ok(req[p])
             THEN [page EXCEPT
                     !.waits[p] = "none", !.touched = TRUE,
                     !.searchData = <<[exists |-> req[p].exists,
                                       savedData |-> req[p].body]>>,
                     !.searchStatus = "success",
                     !.uploadStatus = "idle", !.uploadData = <<>>,
                     !.extractStatus = "idle", !.extractData = <<>>]
             ELSE [page EXCEPT !.waits[p] = "none", !.touched = TRUE,
                               !.searchStatus = "error"]
  /\ UNCHANGED <<store, blobs, call, rag>>

\* handleUpload up to its fetch; step 2 takes clicks when searchStatus is
\* 'success', and its button is disabled while loading
HandleUpload(p) ==
  /\ page.mounted
  /\ NoButtonWaits
  /\ page.searchStatus = "success"
  /\ page.uploadStatus # "loading"
  /\ Accept(p, "archive", "POST", page.season, page.year, "POST")
  /\ page' = [page EXCEPT !.uploadStatus = "loading",
                          !.waits[p] = "upload", !.touched = TRUE]
  /\ UNCHANGED <<store, blobs, archived, call, rag>>

\* handleUpload from response.json() on
HandleUploadResponse(p) ==
  /\ page.waits[p] = "upload"
  /\ Deliver(p)
  /\ page' = IF Ok(req[p])
             THEN [page EXCEPT
                     !.waits[p] = "none", !.touched = TRUE,
                     !.uploadData = <<[updatedDocs |-> req[p].body]>>,
                     !.uploadStatus = "success"]
             ELSE [page EXCEPT !.waits[p] = "none", !.touched = TRUE,
                               !.uploadStatus = "error"]
  /\ UNCHANGED <<store, blobs, call, rag>>

\* handleExtract up to its fetch; step 3 takes clicks when uploadStatus is
\* 'success', and its button is disabled while loading
HandleExtract(p) ==
  /\ page.mounted
  /\ NoButtonWaits
  /\ page.uploadStatus = "success"
  /\ page.extractStatus # "loading"
  /\ Accept(p, "extract", "POST", page.season, page.year, "POST")
  /\ page' = [page EXCEPT !.extractStatus = "loading",
                          !.waits[p] = "extract", !.touched = TRUE]
  /\ UNCHANGED <<store, blobs, archived, call, rag>>

\* handleExtract from response.json() on
HandleExtractResponse(p) ==
  /\ page.waits[p] = "extract"
  /\ Deliver(p)
  /\ page' = IF Ok(req[p])
             THEN [page EXCEPT
                     !.waits[p] = "none", !.touched = TRUE,
                     !.extractData = <<[tournamentInfo |-> req[p].body[1]]>>,
                     !.extractStatus = "success"]
             ELSE [page EXCEPT !.waits[p] = "none", !.touched = TRUE,
                               !.extractStatus = "error"]
  /\ UNCHANGED <<store, blobs, call, rag>>

\* the steps of the page and of the handlers it has called
PageNext ==
  \E p \in Procs :
    \/ Mount(p)
    \/ SetSeason(p)
    \/ SetYear(p)
    \/ CheckStatusResponse(p)
    \/ HandleSearch(p)
    \/ HandleSearchResponse(p)
    \/ HandleUpload(p)
    \/ HandleUploadResponse(p)
    \/ HandleExtract(p)
    \/ HandleExtractResponse(p)
    \/ RunCclSearchCheck(p)
    \/ RunCclSearchScrape(p)
    \/ RunCclSearchInsert(p)
    \/ UploadCclPdfQuery(p)
    \/ UploadCclPdfDoc(p)
    \/ UploadCclPdfUpdate(p)
    \/ ExtractCclInfoQuery(p)
    \/ ExtractCclInfoInvoke(p)
    \/ ExtractCclInfoUpdate(p)
    \/ GetCclStatusQuery(p)

PageSpec == Init /\ [][PageNext]_vars

----------------------------------------------------------------------------
(* The retrieval-augmented server.  null is 0; the vector store a build    *)
(* makes is named by the number of the build, and a QA chain by the vector *)
(* store its retriever reads.  A call of initializePdfProcessing runs up   *)
(* to its next await in one step.  started[b] is the number of             *)
(* clearPdfCache calls made before build b began, built the builds that    *)
(* have stored their result.                                               *)

\* the other variables of the model
Others == <<store, blobs, req, archived, call, page>>

\* the call of caller c up to its first await: the test of the cache, and
\* either the cached pair at once or the start of a build with loader.load()
InitializePdfProcessing(c) ==
  /\ rag.calls[c].pc = "idle"
  /\ IF rag.vectorStore = 0 \/ rag.qaChain = 0
     THEN /\ rag.builds < MaxBuilds
          /\ rag' = [rag EXCEPT
                       !.builds = @ + 1,
                       !.started = Append(@, rag.clears),
                       !.calls[c] = [NoInit EXCEPT !.pc = "load",
                                                   !.build = rag.builds + 1]]
     ELSE rag' = [rag EXCEPT
                    !.calls[c] = [NoInit EXCEPT
                                    !.pc = "returned",
                                    !.vectorStore = rag.vectorStore,
                                    !.qaChain = rag.qaChain]]
  /\ UNCHANGED Others

\* await loader.load() is over: splitDocuments is called, or load threw
LoaderLoad(c) ==
  /\ rag.calls[c].pc = "load"
  /\ \/ rag' = [rag EXCEPT !.calls[c].pc = "split"]
     \/ rag' = [rag EXCEPT !.calls[c].pc = "rejected"]
  /\ UNCHANGED Others

\* await textSplitter.splitDocuments is over: FaissStore.fromDocuments is
\* called, or splitDocuments threw
SplitDocuments(c) ==
  /\ rag.calls[c].pc = "split"
  /\ \/ rag' = [rag EXCEPT !.calls[c].pc = "embed"]
     \/ rag' = [rag EXCEPT !.calls[c].pc = "rejected"]
  /\ UNCHANGED Others

\* await FaissStore.fromDocuments is over: _vectorStore is assigned, _qaChain
\* is made from _vectorStore and the pair is returned, with no await in
\* between; or fromDocuments threw
FromDocuments(c) ==
  /\ rag.calls[c].pc = "embed"
  /\ \/ LET vectorStore == rag.calls[c].build
            qaChain == vectorStore
        IN  rag' = [rag EXCEPT
                      !.vectorStore = vectorStore,
                      !.qaChain = qaChain,
                      !.built = @ \cup {rag.calls[c].build},
                      !.calls[c] = [@ EXCEPT !.pc = "returned",
                                             !.vectorStore = vectorStore,
                                             !.qaChain = qaChain]]
     \/ rag' = [rag EXCEPT !.calls[c].pc = "rejected"]
  /\ UNCHANGED Others

\* the caller has the pair, or the error, and goes on
Resolve(c) ==
  /\ rag.calls[c].pc \in {"returned", "rejected"}
  /\ rag' = [rag EXCEPT !.calls[c] = NoInit]
  /\ UNCHANGED Others

\* clearPdfCache()
ClearPdfCache ==
  /\ rag.clears < MaxClears
  /\ rag' = [rag EXCEPT !.vectorStore = 0, !.qaChain = 0, !.clears = @ + 1]
  /\ UNCHANGED Others

RagNext ==
  \/ \E c \in Callers :
       \/ InitializePdfProcessing(c)
       \/ LoaderLoad(c)
       \/ SplitDocuments(c)
       \/ FromDocuments(c)
       \/ Resolve(c)
  \/ ClearPdfCache

RagSpec == Init /\ [][RagNext]_vars

----------------------------------------------------------------------------
(* The claims.                                                             *)

SameKey(id, r) == store[id].season = r.season /\ store[id].year = r.year

\* slot p takes its step out of pc, and the store read of that step succeeds
Leaves(p, kind, pc) ==
  At(p, kind, pc) /\ req'[p].pc # pc /\ req'[p].status # 500

\* C1: when the existence check of discover finds a record of the key (and
\* the read does not fail), the call ends there: it answers 200 with
\* exists = true and the data of the records found, it has called neither the
\* search provider nor fetched a page nor inserted, and the store and the
\* bucket are as they were.
C1_DiscoverExistingIsNoOp ==
  [][\A p \in Procs :
       (Leaves(p, "discover", "query")
          /\ Matching(req[p].season, req[p].year) # {})
       => /\ req'[p].pc = "done"
          /\ req'[p].status = 200
          /\ req'[p].exists
          /\ req'[p].body = DataOf(getDocs(req[p].season, req[p].year))
          /\ ~req'[p].searched
          /\ req'[p].fetched = 0
          /\ req'[p].inserted = {}
          /\ store' = store
          /\ blobs' = blobs]_vars

\* a discover call has answered exists = true with the records it found
C1_Witness ==
  \E p \in Procs :
    /\ req[p].kind = "discover" /\ req[p].pc = "done"
    /\ req[p].exists /\ req[p].body # <<>>

\* C2: with one request at a time, an archive call that answers 200 reports
\* every record of its key that an earlier archive call reported as newly
\* archived as existing, with the same pdfStorageUrl, and has neither
\* uploaded a blob nor written the store for it.
C2_SecondArchiveReportsExisting ==
  \A p \in Procs :
    (req[p].kind = "archive" /\ req[p].pc = "done" /\ req[p].status = 200)
    => \A e \in archived :
         SameKey(e.id, req[p])
         => /\ \E k \in 1..Len(req[p].body) :
                 req[p].body[k] = [id |-> e.id,
                                   pdfStorageUrl |-> e.pdfStorageUrl,
                                   exists |-> TRUE]
            /\ e.id \notin req[p].uploaded
            /\ e.id \notin req[p].wrote

\* a second archive call has answered for a record a first call archived
C2_Witness ==
  \E p \in Procs :
    /\ req[p].kind = "archive" /\ req[p].pc = "done" /\ req[p].status = 200
    /\ \E e \in archived : SameKey(e.id, req[p])

\* C3: once a record's pdfStorageUrl is not empty, no step changes it and no
\* step uploads a blob for that record.
C3_WriteOnce ==
  [][\A id \in DOMAIN store :
       store[id].pdfStorageUrl # NoUrl
       => /\ store'[id].pdfStorageUrl = store[id].pdfStorageUrl
          /\ \A p \in Procs :
               id \in req'[p].uploaded => id \in req[p].uploaded]_vars

\* C4: when the record extract looks up (the first of the key) has an empty
\* pdfStorageUrl, the call ends there with 400 and the precondition message;
\* it has fetched nothing, has not invoked the language model and has not
\* written the store.
C4_ExtractPrecondition ==
  [][\A p \in Procs :
       (Leaves(p, "extract", "query")
          /\ LET docs == getDocs(req[p].season, req[p].year)
             IN  docs # <<>> /\ docs[1].data.pdfStorageUrl = NoUrl)
       => /\ req'[p].pc = "done"
          /\ req'[p].status = 400
          /\ req'[p].message = "PDF has not been uploaded yet."
          /\ req'[p].fetched = 0
          /\ ~req'[p].invoked
          /\ req'[p].wrote = {}
          /\ store' = store]_vars

\* an extract call has been refused for want of a stored PDF
C4_Witness ==
  \E p \in Procs :
    /\ req[p].kind = "extract" /\ req[p].pc = "done" /\ req[p].status = 400
    /\ req[p].message = "PDF has not been uploaded yet."

\* C5: a record is created by a discover call, with pdfStorageUrl and
\* tournamentInfo empty; archive writes pdfStorageUrl on records that exist;
\* extract writes tournamentInfo on a record whose pdfStorageUrl is already
\* written; and archive or extract for a key without a record ends with 404,
\* having uploaded, fetched, invoked and written nothing.
C5_StagesOrdered ==
  [][/\ \A id \in DOMAIN store' \ DOMAIN store :
          /\ store'[id].pdfStorageUrl = NoUrl
          /\ store'[id].tournamentInfo = ""
          /\ \E p \in Procs :
               req[p].kind = "discover" /\ id \in req'[p].inserted
     /\ \A p \in Procs : \A id \in req'[p].wrote \ req[p].wrote :
          /\ id \in DOMAIN store
          /\ req[p].kind = "extract" => store[id].pdfStorageUrl # NoUrl
     /\ \A p \in Procs : \A kind \in {"archive", "extract"} :
          (Leaves(p, kind, "query")
             /\ Matching(req[p].season, req[p].year) = {})
          => /\ req'[p].pc = "done"
             /\ req'[p].status = 404
             /\ req'[p].uploaded = {}
             /\ req'[p].fetched = 0
             /\ ~req'[p].invoked
             /\ req'[p].wrote = {}
             /\ store' = store
             /\ blobs' = blobs]_vars

\* a record has gone through the three stages, and a call for a key without a
\* record has been answered 404
C5_Witness ==
  /\ \E id \in DOMAIN store : store[id].tournamentInfo # ""
  /\ \E p \in Procs :
       /\ req[p].kind \in {"archive", "extract"}
       /\ req[p].pc = "done" /\ req[p].status = 404

\* C6: every record whose tournamentInfo is populated has a pdfStorageUrl.
C6_InfoOnlyIfArchived ==
  \A id \in DOMAIN store :
    store[id].tournamentInfo # "" => store[id].pdfStorageUrl # NoUrl

\* a record has its tournamentInfo populated
C6_Witness == \E id \in DOMAIN store : store[id].tournamentInfo # ""

\* C7: every record whose pdfStorageUrl is not empty has a document link.
C7_ArchivedOnlyIfLinked ==
  \A id \in DOMAIN store :
    store[id].pdfStorageUrl # NoUrl => Truthy(store[id].pdf)

\* of two records of one key, the one with a document link is archived and
\* the one without is not
C7_Witness ==
  \E a, b \in DOMAIN store :
    /\ store[a].season = store[b].season /\ store[a].year = store[b].year
    /\ store[a].pdfStorageUrl # NoUrl
    /\ ~Truthy(store[b].pdf)

\* C8: with one request at a time, the store holds at most one record per
\* (season, year, source).
C8_OneRecordPerSource ==
  \A a, b \in DOMAIN store :
    (/\ store[a].season = store[b].season
     /\ store[a].year = store[b].year
     /\ store[a].source = store[b].source) => a = b

\* C9: a discover call that has passed its existence check did so when the
\* key had no record: every record of its key now in the store was inserted
\* after that check.  (The state the claim says is reachable is C9_Witness.)
C9_InsertAfterEmptyCheck ==
  \A p \in Procs :
    (req[p].kind = "discover"
       /\ (req[p].pc \in {"search", "insert"} \/ req[p].inserted # {}))
    => Matching(req[p].season, req[p].year) \cap req[p].before = {}

\* two overlapping discover calls have each inserted a record for the same
\* (season, year, source)
C9_Witness ==
  \E p, q \in Procs :
    /\ p # q
    /\ \E a \in req[p].inserted, b \in req[q].inserted :
         /\ a # b
         /\ store[a].season = store[b].season
         /\ store[a].year = store[b].year
         /\ store[a].source = store[b].source

\* C10: archive fetches the document link of an unarchived record whose link
\* has no "/d/<id>/" segment.
C10_DirectLinkFetched ==
  [][\A p \in Procs :
       (/\ At(p, "archive", "loop")
        /\ req'[p] # req[p]
        /\ LET data == req[p].docs[req[p].i].data
           IN  NeedsUpload(data) /\ ~HasDriveId(data))
       => req'[p].fetched = req[p].fetched + 1]_vars

\* the page at url holds one PDF link and one registration link
OnePdfOneRegistration(url) ==
  /\ Len(Scraped[url].pdf) = 1
  /\ Len(Scraped[url].registration) = 1

\* the store holds the record id alone, discovered from such a page
OnlyRecord(id) ==
  DOMAIN store = {id} /\ OnePdfOneRegistration(store[id].source)

Candidates(r) ==
  {k \in 1..Len(r.sources) :
     k \notin r.failed /\ HasLinks(Scraped[r.sources[k]])}

\* C12: in discover, the fetches that fail do not end the call: the scrape
\* step fetches every surviving url and keeps the candidate of every url whose
\* fetch did not fail, without answering an error; and a call that answers
\* 200 after the search has inserted one record per such candidate.
C12_FetchFailureSkipsOneUrl ==
  [][\A p \in Procs :
       LET r == req'[p]
       IN  /\ (At(p, "discover", "search") /\ r.sources # <<>>)
              => /\ r.status # 500
                 /\ r.fetched = Len(r.sources)
                 /\ Len(r.results) = Cardinality(Candidates(r))
                 /\ \A k \in Candidates(r) :
                      \E j \in 1..Len(r.results) :
                        r.results[j] = Scraped[r.sources[k]]
           /\ (/\ req[p].kind = "discover" /\ req[p].pc = "insert"
               /\ r.pc = "done" /\ r.status = 200)
              => /\ Cardinality(r.inserted) = Cardinality(Candidates(r))
                 /\ \A k \in Candidates(r) :
                      \E id \in r.inserted :
                        store'[id] = tournamentData(Scraped[r.sources[k]],
                                                    r.season, r.year)]_vars

\* a discover call has answered 200 with a record inserted although the fetch
\* of another surviving url failed
C12_Witness ==
  \E p \in Procs :
    /\ req[p].kind = "discover" /\ req[p].pc = "done" /\ req[p].status = 200
    /\ req[p].failed # {}
    /\ req[p].inserted # {}

\* C13: in archive, once the snapshot is read no step answers an error; a
\* step in which the download, the upload or the update of a document fails
\* leaves the store as it is and that document without a write by this call;
\* and the call answers only after the last document of the snapshot, every
\* document that needed an upload having been either written or logged as
\* failed.
C13_ArchiveFailureSkipsOneRecord ==
  [][\A p \in Procs :
       LET r == req'[p]
       IN  (/\ (At(p, "archive", "loop") \/ At(p, "archive", "update"))
            /\ r # req[p])
           => /\ r.status \in {0, 200}
              /\ \A id \in r.failed \ req[p].failed :
                   /\ store' = store
                   /\ id \notin r.wrote
              /\ r.pc = "done"
                 => /\ req[p].i = Len(req[p].docs)
                    /\ \A k \in 1..Len(req[p].docs) :
                         LET document == req[p].docs[k]
                         IN  (NeedsUpload(document.data)
                                /\ HasDriveId(document.data))
                             => \/ document.id \in r.wrote
                                \/ document.id \in r.failed]_vars

\* an archive call has answered 200 having archived one record of the key
\* after it failed on another, which stays unarchived
C13_Witness ==
  \E p \in Procs :
    /\ req[p].kind = "archive" /\ req[p].pc = "done" /\ req[p].status = 200
    /\ \E a \in req[p].failed, b \in req[p].wrote :
         /\ a < b
         /\ store[a].pdfStorageUrl = NoUrl
         /\ store[b].pdfStorageUrl # NoUrl

\* C14: when the search provider call of discover does not succeed, the call
\* ends there with status 502, having fetched no page and inserted no record.
C14_ProviderFailureIs502 ==
  [][\A p \in Procs :
       (/\ At(p, "discover", "search")
        /\ req'[p].pc = "done" /\ req'[p].status # 200)
       => /\ req'[p].status = 502
          /\ req'[p].fetched = 0
          /\ req'[p].inserted = {}
          /\ store' = store]_vars

\* C15: when what the language model answered, its code fences stripped, does
\* not parse as JSON, extract ends the call with status 502, writes nothing
\* and leaves the tournamentInfo of the record as it was.
C15_ParseFailureIs502 ==
  [][\A p \in Procs :
       (/\ At(p, "extract", "invoke")
        /\ req'[p].invoked /\ req'[p].logged = req[p].logged + 2)
       => /\ req'[p].pc = "done"
          /\ req'[p].status = 502
          /\ req'[p].wrote = {}
          /\ store' = store]_vars

\* C16: the step in which an extract call succeeds sets the tournamentInfo of
\* its record to the object parsed in the call, whatever it held before, and
\* answers with that object; no other field of the record and no other record
\* changes.
C16_ExtractReplaces ==
  [][\A p \in Procs :
       (At(p, "extract", "update") /\ req'[p].status = 200)
       => LET id == req[p].docs[1].id
          IN  /\ ParsesAsJson(<<req[p].info>>)
              /\ store'[id].tournamentInfo = req[p].info
              /\ req'[p].body = <<req[p].info>>
              /\ store' = [store EXCEPT ![id].tournamentInfo = req[p].info]
              /\ blobs' = blobs]_vars

\* an extract call has replaced a tournamentInfo by a different one
C16_Witness ==
  \E p \in Procs :
    /\ req[p].kind = "extract" /\ req[p].pc = "done" /\ req[p].status = 200
    /\ req[p].prev # ""
    /\ req[p].body # <<req[p].prev>>
    /\ \E id \in req[p].wrote : <<store[id].tournamentInfo>> = req[p].body

\* the stage the consumer derives from the record status answers with: the
\* search step is done when the record exists, the upload step when it has a
\* pdfStorageUrl, the extract step when it has a tournamentInfo
Stage(data) ==
  IF data.tournamentInfo # "" THEN "extracted"
  ELSE IF data.pdfStorageUrl # NoUrl THEN "archived"
  ELSE "discovered"

\* C17: no step of a status call changes the store or the bucket; when its
\* read does not fail the call answers 200 with exists = false and no record
\* exactly when the store has no record of the key, and otherwise with
\* exists = true and a record of the key as it is stored; a record at the
\* extracted stage has the field of the archived stage too.
C17_StatusPureRead ==
  [][\A p \in Procs :
       LET r == req'[p]
       IN  /\ (r # req[p] /\ (r.kind = "status" \/ req[p].kind = "status"))
              => /\ store' = store
                 /\ blobs' = blobs
                 /\ r.inserted = {} /\ r.uploaded = {} /\ r.wrote = {}
           /\ Leaves(p, "status", "query")
              => LET ids == Matching(req[p].season, req[p].year)
                 IN  /\ r.pc = "done" /\ r.status = 200
                     /\ r.exists <=> ids # {}
                     /\ ~r.exists => r.body = <<>>
                     /\ r.exists =>
                          \E id \in ids :
                            /\ r.body = <<store[id]>>
                            /\ Stage(r.body[1]) = "extracted"
                               => r.body[1].pdfStorageUrl # NoUrl]_vars

\* status has answered with a record at the archived stage while another key
\* has a record too
C17_Witness ==
  \E p \in Procs :
    /\ req[p].kind = "status" /\ req[p].pc = "done" /\ req[p].exists
    /\ Stage(req[p].body[1]) = "archived"
    /\ \E id \in DOMAIN store : ~SameKey(id, req[p])

\* C18: no step removes a record: the ids of the store after a step include
\* the ids before it.
C18_NeverDeleted ==
  [][DOMAIN store \subseteq DOMAIN store']_vars

\* the store is full after calls of every kind: one record has been archived
\* and extracted, another discovered after it
C18_Witness ==
  \E a, b \in DOMAIN store :
    /\ a # b
    /\ store[a].tournamentInfo # ""
    /\ store[b].pdfStorageUrl = NoUrl
    /\ \E p \in Procs : req[p].kind = "status" /\ req[p].pc = "done"

\* the fields of a record that are set at discovery
Discovered(data) ==
  [ season |-> data.season, year |-> data.year, source |-> data.source,
    pdf |-> data.pdf, instructions |-> data.instructions,
    registration |-> data.registration, fairPlay |-> data.fairPlay,
    platform |-> data.platform ]

\* C19: no step changes the season, year, source, pdf, instructions,
\* registration, fairPlay or platform of a stored record; a step that changes
\* its pdfStorageUrl is the update of an archive call and changes nothing
\* else; a step that changes its tournamentInfo is the update of an extract
\* call and changes nothing else.
C19_DiscoveredFieldsFrozen ==
  [][\A id \in DOMAIN store :
       /\ id \in DOMAIN store'
       /\ Discovered(store'[id]) = Discovered(store[id])
       /\ store'[id].pdfStorageUrl # store[id].pdfStorageUrl
          => /\ \E p \in Procs : At(p, "archive", "update")
                                  /\ id \in req'[p].wrote
             /\ store'[id].tournamentInfo = store[id].tournamentInfo
       /\ store'[id].tournamentInfo # store[id].tournamentInfo
          => /\ \E p \in Procs : At(p, "extract", "update")
                                  /\ id \in req'[p].wrote
             /\ store'[id].pdfStorageUrl = store[id].pdfStorageUrl]_vars

\* a record has been archived and extracted and still has the links found at
\* discovery
C19_Witness ==
  \E id \in DOMAIN store :
    /\ store[id].pdfStorageUrl # NoUrl
    /\ store[id].tournamentInfo # ""
    /\ store[id].pdf = ViewerLink
    /\ store[id].registration = FormLink

\* C20: every upload writes a blob path that no earlier upload wrote.
C20_NoBlobOverwritten ==
  [][\A p \in Procs :
       (At(p, "archive", "loop") /\ req'[p].pc = "update")
       => \E path \in blobs' \ blobs : req'[p].url = getDownloadURL(path)]_vars

\* the urls the filter is to keep for a season and a year, listed by hand:
\* the url names the year and the season in any case and does not name india
KeptUrls(season, year) ==
  IF season \in {"spring", "Spring"}
  THEN IF year = "2026"
       THEN {SpringNews, SpringClub, ExampleRules, ExampleUpper}
       ELSE {LastYearNews, ExampleLastYear}
  ELSE IF year = "2026" THEN {FallNews, FallRecap} ELSE {}

\* C21: the citation filter keeps, in their order, exactly the urls that hold
\* the year and the season (in any case) and do not hold india: for spring
\* 2026 it keeps https://example.com/2026-spring-rules and rejects
\* https://example.com/india-2026-spring and https://example.com/2025-spring.
C21_FilterKeeps ==
  call.fn = "filter"
  => /\ call.out = SelectSeq(call.rawSources,
                             LAMBDA u : u \in KeptUrls(call.season, call.year))
     /\ ExampleRules \in KeptUrls("spring", "2026")
     /\ ExampleIndia \notin KeptUrls("spring", "2026")
     /\ ExampleLastYear \notin KeptUrls("spring", "2026")

\* the filter has kept the first and rejected the second of the urls of the
\* claim, and has kept a url that writes the season with a capital
C21_Witness ==
  /\ call.fn = "filter" /\ call.season = "spring" /\ call.year = "2026"
  /\ \/ call.rawSources = <<ExampleRules, ExampleIndia>>
        /\ call.out = <<ExampleRules>>
     \/ call.rawSources = <<ExampleLastYear, SpringClub>>
        /\ call.out = <<SpringClub>>

\* the hrefs with the register or the login path of the host, listed by hand
OwnRegisterLogin == {RegisterLink, RegisterLinkUpper, LoginLink}

\* C22: an anchor whose href holds chess.com/register or chess.com/login is
\* put in no bucket, whatever its text and the rest of its href.
C22_RegisterLoginExcluded ==
  (call.fn = "classify" /\ call.href \in OwnRegisterLogin)
  => call.out = NoLinks("")

\* the login link, whose href ends in .pdf, under the text Download PDF has
\* been classified
C22_Witness ==
  /\ call.fn = "classify"
  /\ call.href = LoginLink /\ call.text = "Download PDF"
  /\ call.out.pdf = <<>>

\* the hrefs and the texts that make a document link, listed by hand
DocumentHrefs == {ViewerLink, DirectLink, GoogleDocLink}
DocumentTexts == {"Download PDF"}

\* C23: an anchor that is not excluded is in the document bucket exactly when
\* its text holds pdf or its href holds .pdf, the drive host, or the docs
\* host outside a forms path; a forms link of the docs host whose text does
\* not hold pdf is in the registration bucket and not in the document bucket.
C23_DocumentBucket ==
  (call.fn = "classify" /\ call.href # "" /\ call.href \notin OwnRegisterLogin)
  => /\ call.out.pdf \in {<<>>, <<call.href>>}
     /\ call.out.pdf = <<call.href>>
        <=> (call.text \in DocumentTexts \/ call.href \in DocumentHrefs)
     /\ (call.href = GoogleFormLink /\ call.text \notin DocumentTexts)
        => /\ call.out.registration = <<call.href>>
           /\ call.out.pdf = <<>>

\* a forms link of the docs host under a text without pdf has been classified
C23_Witness ==
  /\ call.fn = "classify"
  /\ call.href = GoogleFormLink /\ call.text = "Rules"
  /\ call.out.registration = <<GoogleFormLink>>

Buckets == {"pdf", "instructions", "registration", "fairPlay", "platform"}

\* the buckets of each anchor classified alone
Alone == [a \in PageAnchors |-> EachAnchor(NoLinks(""), a)]

\* the anchor alone lands in the bucket
Lands(a, bucket) == Alone[a][bucket] # <<>>

\* C24: for each bucket, the record of a page stores the href of the first
\* anchor of the page, in the order of the page, that lands in the bucket,
\* and the empty string when none does.
C24_FirstLinkWins ==
  call.fn = "page"
  => \A bucket \in Buckets :
       LET hits == {k \in 1..Len(call.anchors) : Lands(call.anchors[k], bucket)}
       IN  IF hits = {}
           THEN call.out[bucket] = ""
           ELSE \E k \in hits :
                  /\ \A j \in hits : k <= j
                  /\ call.out[bucket] = call.anchors[k].href

\* a page with two document links and two registration links, the direct
\* link and the forms link first
C24_Witness ==
  /\ call.fn = "page"
  /\ call.anchors = << Anchor(DirectLink, "Rules"),
                       Anchor(GoogleFormLink, "Sign Up"),
                       Anchor(ViewerLink, "Download PDF") >>
  /\ call.out.pdf = DirectLink
  /\ call.out.registration = GoogleFormLink

\* C26: a viewer link .../d/<ID>/view?usp=sharing resolves to the download
\* url that ends in id=<ID>, for every identifier.
C26_ViewerLinkResolves ==
  call.fn = "resolve"
  => /\ call.out = Chars("https://drive.google.com/uc?export=download&id=")
                     \o Chars(call.id)
     /\ includes(call.out, <<"i", "d", "=">> \o Chars(call.id))

\* the link of the identifier XYZ789 has been resolved
C26_Witness ==
  /\ call.fn = "resolve" /\ call.id = "XYZ789"
  /\ includes(call.pdfLink, Chars("/d/") \o Chars("XYZ789")
                              \o Chars("/view?usp=sharing"))
  /\ includes(call.out, <<"i", "d", "=">> \o Chars("XYZ789"))

\* C25: every record of the store has at least one of its five links, and
\* the page it was made from has a classified link: a page without one makes
\* no record.
C25_RecordHasLink ==
  \A id \in DOMAIN store :
    /\ \E bucket \in Buckets : Truthy(store[id][bucket])
    /\ HasLinks(Scraped[store[id].source])

\* the store has a record, and a discover call has answered 200 without a
\* record for the one page it fetched, which has no classified link
C25_Witness ==
  /\ store # <<>>
  /\ \E p \in Procs :
       /\ req[p].kind = "discover" /\ req[p].pc = "done"
       /\ req[p].status = 200 /\ ~req[p].exists
       /\ req[p].fetched = 1 /\ req[p].failed = {}
       /\ ~HasLinks(Scraped[req[p].sources[1]])
       /\ req[p].inserted = {}

\* the method each handler accepts
Expected(kind) == IF kind = "status" THEN "GET" ELSE "POST"

\* C27: a call of any of the four handlers (with the method it accepts) in
\* which season or year is missing is answered 400 in its first step, before
\* the store is read: the store and the bucket are as they were and the call
\* has searched, fetched, inserted, uploaded, invoked and written nothing.
C27_MissingParamsIs400 ==
  [][\A p \in Procs :
       LET r == req'[p]
       IN  (/\ req[p].pc = "idle" /\ r.pc # "idle"
            /\ r.method = Expected(r.kind)
            /\ (~Truthy(r.season) \/ ~Truthy(r.year)))
           => /\ r.pc = "done"
              /\ r.status = 400
              /\ store' = store /\ blobs' = blobs
              /\ ~r.searched /\ r.fetched = 0 /\ ~r.invoked
              /\ r.inserted = {} /\ r.uploaded = {} /\ r.wrote = {}
              /\ r.docs = <<>> /\ r.body = <<>>]_vars

\* an archive call without a year has been answered 400 while the store has
\* a record it could have archived
C27_Witness ==
  \E p \in Procs :
    /\ req[p].kind = "archive" /\ req[p].pc = "done" /\ req[p].status = 400
    /\ ~Truthy(req[p].year)
    /\ \E id \in DOMAIN store : NeedsUpload(store[id])

\* the records of the key of the call r that are archived
ArchivedOfKey(r) ==
  {id \in Matching(r.season, r.year) : store[id].pdfStorageUrl # NoUrl}

\* C28: the later stages work record by record: an archive call answers only
\* after its loop has reached every record of the key; an extract call is not
\* refused for want of a stored PDF while the key has an archived record; and
\* an extract call that succeeds has written the tournamentInfo of every
\* archived record of the key.
C28_StagesPerRecord ==
  [][\A p \in Procs :
       LET r == req'[p]
       IN  /\ (/\ At(p, "archive", "loop") \/ At(p, "archive", "update")
               /\ r.pc = "done")
              => req[p].i = Len(req[p].docs)
           /\ (Leaves(p, "extract", "query") /\ ArchivedOfKey(req[p]) # {})
              => r.status # 400
           /\ (At(p, "extract", "update") /\ r.status = 200)
              => ArchivedOfKey(req[p]) \subseteq r.wrote]_vars

\* C29: every skip is logged by the call that makes it: the scrape step of
\* discover logs once for each url whose fetch failed, and a step of the
\* archive loop that leaves a record that needs an upload without one logs.
C29_EverySkipLogged ==
  [][\A p \in Procs :
       LET r == req'[p]
       IN  /\ (At(p, "discover", "search") /\ r.sources # <<>>)
              => r.logged >= req[p].logged + Cardinality(r.failed)
           /\ (/\ At(p, "archive", "loop") /\ r # req[p]
               /\ NeedsUpload(req[p].docs[req[p].i].data)
               /\ r.pc # "update")
              => r.logged > req[p].logged]_vars

\* C30: a discover call that answers an error has left no record in the
\* store.
C30_FailedDiscoverLeavesNothing ==
  \A p \in Procs :
    (req[p].kind = "discover" /\ req[p].pc = "done" /\ req[p].status # 200)
    => req[p].inserted = {}

\* no archive call is between its first and its last step
NoArchiveRunning ==
  \A p \in Procs :
    req[p].kind = "archive" => req[p].pc \in {"idle", "done"}

\* C31: once the archive calls have answered, every blob of the blob store
\* has its durable URL stored as the pdfStorageUrl of some record.
C31_EveryBlobReferenced ==
  NoArchiveRunning
  => \A path \in blobs :
       \E id \in DOMAIN store :
         store[id].pdfStorageUrl = getDownloadURL(path)

\* the key has a record with a viewer link, and every record of the key with
\* a viewer link is archived: what discover and then an archive call without
\* a failure leave behind
PipelineReady(season, year) ==
  LET ids == Matching(season, year)
  IN  /\ \E id \in ids : HasDriveId(store[id])
      /\ \A id \in ids :
           HasDriveId(store[id]) => store[id].pdfStorageUrl # NoUrl

\* C32: after discover has stored a record with a viewer link for the key and
\* archive has run without a failure, an extract call none of whose outside
\* calls fails passes its lookup, and ends with 200 and the tournamentInfo of
\* a record of the key stored.
C32_PipelineProgress ==
  [][\A p \in Procs :
       LET r == req'[p]
       IN  /\ (/\ Leaves(p, "extract", "query")
               /\ PipelineReady(req[p].season, req[p].year)
               /\ r.status # 500)
              => r.pc = "invoke"
           /\ (Leaves(p, "extract", "update") /\ r.status # 500)
              => /\ r.status = 200
                 /\ \E id \in Matching(r.season, r.year) :
                      store'[id].tournamentInfo # ""]_vars

\* the stage the consumer derives from what a status call for the key
\* answers in this state: no record, or the stage of docs[0]
StatusStage(season, year) ==
  LET querySnapshot == getDocs(season, year)
  IN  IF querySnapshot = <<>> THEN "none" ELSE Stage(querySnapshot[1].data)

\* the order of the stages
Rank(stage) ==
  CASE stage = "none" -> 0
    [] stage = "discovered" -> 1
    [] stage = "archived" -> 2
    [] stage = "extracted" -> 3

\* C33: for each key, the stage derived from the answer of status never goes
\* back: no step of any call lowers it.
C33_StageNeverRegresses ==
  [][\A season \in Seasons, year \in Years :
       Rank(StatusStage(season, year)') >= Rank(StatusStage(season, year))]_vars

\* the pages of the model in which no anchor is a classified link
EmptyPages == {FallRecap, IndiaNews, LastYearNews}

\* C34: a discover call whose search does not fail and in which no citation
\* survives the filter, or every surviving url fails to load or has a page
\* without a classified link, answers 200 with an empty savedData, has
\* inserted nothing and leaves the store as it was, the key without a record;
\* and the existence check of a discover call for a key without a record
\* goes on to the search provider.
C34_EmptyDiscoverNotCached ==
  [][\A p \in Procs :
       LET r == req'[p]
       IN  /\ (/\ Leaves(p, "discover", "search")
               /\ \A k \in 1..Len(r.sources) :
                    k \in r.failed \/ r.sources[k] \in EmptyPages)
              => /\ r.pc = "done" /\ r.status = 200 /\ ~r.exists
                 /\ r.body = <<>> /\ r.inserted = {}
                 /\ store' = store /\ blobs' = blobs
                 /\ Matching(r.season, r.year) = {}
           /\ (/\ Leaves(p, "discover", "query")
               /\ Matching(req[p].season, req[p].year) = {})
              => r.pc = "search"
           /\ Leaves(p, "discover", "search") => r.searched]_vars

\* a discover call has answered 200 with nothing saved after it fetched a
\* surviving page that has no classified link, and the key has no record
C34_Witness ==
  \E p \in Procs :
    /\ req[p].kind = "discover" /\ req[p].pc = "done"
    /\ req[p].status = 200 /\ ~req[p].exists /\ req[p].searched
    /\ req[p].sources = <<FallRecap>> /\ req[p].failed = {}
    /\ req[p].body = <<>>
    /\ Matching(req[p].season, req[p].year) = {}

\* C35: in the step-manager page, whenever uploadStatus is 'success' the
\* record extract reads for the selected key, docs[0], has a pdfStorageUrl.
C35_EnabledExtractHasPdf ==
  page.uploadStatus = "success"
  => LET querySnapshot == getDocs(page.season, page.year)
     IN  /\ querySnapshot # <<>>
         /\ querySnapshot[1].data.pdfStorageUrl # NoUrl

\* C36: in the step-manager page, once no status request is in flight, and
\* as long as no button has been used since the last selection, a step shown
\* as done is done for the selected (season, year): the key has a record,
\* and docs[0] of the key has the pdfStorageUrl, the tournamentInfo.
C36_DisplayedIsSelected ==
  (/\ page.mounted /\ ~page.touched
   /\ \A p \in Procs : page.waits[p] = "none")
  => LET querySnapshot == getDocs(page.season, page.year)
     IN  /\ page.searchStatus \in {"idle", "success"}
         /\ page.searchStatus = "success" => querySnapshot # <<>>
         /\ page.uploadStatus = "success"
            => /\ querySnapshot # <<>>
               /\ querySnapshot[1].data.pdfStorageUrl # NoUrl
         /\ page.extractStatus = "success"
            => /\ querySnapshot # <<>>
               /\ querySnapshot[1].data.tournamentInfo # ""

\* C37: between two clearPdfCache calls the vector store and the QA chain
\* are built at most once: no two builds that began after the same number of
\* clears have both stored their result; and a call that has resolved holds
\* a vector store that is not null and the QA chain made from it.
C37_BuiltAtMostOnce ==
  /\ \A a \in rag.built : \A b \in rag.built :
       a # b => rag.started[a] # rag.started[b]
  /\ \A c \in Callers :
       rag.calls[c].pc = "returned"
       => /\ rag.calls[c].vectorStore # 0
          /\ rag.calls[c].qaChain = rag.calls[c].vectorStore

\* C38: the cached vector store and QA chain come from a build that began
\* after the latest clearPdfCache.
C38_NoStaleRepopulation ==
  /\ rag.vectorStore # 0 => rag.started[rag.vectorStore] = rag.clears
  /\ rag.qaChain # 0 => rag.started[rag.qaChain] = rag.clears

====
